---------------------------- MODULE Spec2Model ----------------------------
(***************************************************************************)
(* Message relay and echo suppression of the WhatsApp <-> Discord bridge.  *)
(*                                                                         *)
(* The model covers lib/database.js (echo ledger, send locks, deferral     *)
(* queue, purge), lib/whatsapp-manager.js (handleMessage,                  *)
(* handleOwnMessage, the send* wrappers) and the messageCreate handler of  *)
(* lib/discord-manager.js.  Node runs every callback to its first await    *)
(* without interruption, so one action is one such run.                    *)
(***************************************************************************)
EXTENDS Integers, Sequences, FiniteSets, TLC

(***************************************************************************)
(* Bounds of the model.                                                    *)
(***************************************************************************)
MaxTime == 10
MaxSends == 2
MaxInbound == 2
MaxMediaInbound == 4
MaxAttachments == 3
MaxPurges == 1
MaxDiscordMsgs == 2
MaxEchoSends == 1
MaxMediaMsgs == 1
MaxMediaSends == 1
MaxLoopInbound == 2
MaxLoopSends == 1
MaxLiveMsgs == 2
MaxLiveSends == 2
MaxRestarts == 1
MaxRestartInbound == 2
MaxPauseInbound == 2
MaxMuteInbound == 2
MaxMuteSends == 1
MaxRegistryInbound == 2
MaxMappingInbound == 1
MaxMappingSends == 1
MaxAttachInbound == 2
MaxSendCommands == 2
MaxCommandSends == 1
MaxGifMsgs == 2
MaxGifSends == 2
MaxTtlMsgs == 2
MaxDeliverOps == 3

(***************************************************************************)
(* Program constants.                                                      *)
(***************************************************************************)
ContentTtlMinutes == 5
IdTtlMinutes == 10
MediaTtlMinutes == 10
FileTtlMinutes == 10

\* The clock is observed on a grid of TickMinutes; the 500 ms and 100 ms
\* timers are far below the grid and are kept as pending timer queues.
TickMinutes == ContentTtlMinutes

Chats == {"c1", "c2"}

\* Message texts as sequences of UTF-16 code units: "hi", " Hi" and "ok".
TextHi == <<104, 105>>
TextHiRaw == <<32, 72, 105>>
TextOk == <<111, 107>>
Texts == {TextHi, TextHiRaw, TextOk}
NoText == << >>

NoFile == [filename |-> "", fileSize |-> 0]

VARIABLES
  now,                      \* Date.now(), in minutes
  is_paused,                \* bridge_state.is_paused
  chat_mappings,            \* table chat_mappings: wa_chat_id -> row
  channels,                 \* Discord channels that exist
  nextChannelId,            \* ids Discord hands out for created channels
  sendingLocks,             \* Map chatId -> {locked, queue}
  pendingMessageIds,        \* Set of message ids (memory cache)
  idTimers,                 \* setTimeout(...) deleting a cached message id
  discord_sent_message_ids, \* table: rows [wa_message_id, expires_at]
  discord_sent_messages,    \* table: rows [wa_chat_id, message_hash, expires_at]
  discord_sent_file_hashes, \* table: rows [wa_chat_id, filename, file_size, expires_at]
  pendingMediaCounts,       \* Map chatId -> count (memory cache)
  mediaTimers,              \* setTimeout(...) giving back units of the memory counter
  pending_media_counts,     \* table: wa_chat_id -> [count, expires_at]
  calls,                    \* platform sends awaiting their result
  unlockTimers,             \* setTimeout(unlock, 500) of the send wrappers, in firing order
  drainTimers,              \* setTimeout(drain, 100) of unlockChatAfterSending, in firing order
  wire,                     \* messages WhatsApp created and has not yet delivered to onAnyMessage
  forwards,                 \* forwardMessageToDiscord calls past classification, not yet posted
  mediaJobs,                \* attachment loops of Discord media messages under way
  dcEvents,                 \* Discord messages whose messageCreate has not run yet
  nextMsgId,                \* ids WhatsApp hands out for messages
  nSends,                   \* outbound sends started so far
  nPurges,                  \* purges so far
  nDiscord,                 \* Discord user messages so far
  deferred,                 \* history: ids of the events that were ever queued (-id: queued again by a drain)
  arrivals,                 \* history: inbound events in the order onAnyMessage got them
  processed,                \* history: events in the order they were classified, with the outcome
  sendLog,                  \* history: one record per outbound send
  incLog,                   \* history: one record per incrementPendingMediaCount
  doomed,                   \* channels a purge has yet to delete
  epoch,                    \* starts of the process since the first
  channelCalls,             \* history: one record per getOrCreateChannel call
  tempFiles,                \* files in the temp directory of MediaManager: [ev, size, of]
  sendCommands              \* history: one record per send command, with the state of its dialog

vars == <<now, is_paused, chat_mappings, channels, nextChannelId, sendingLocks,
          pendingMessageIds, idTimers, discord_sent_message_ids,
          discord_sent_messages, discord_sent_file_hashes, pendingMediaCounts,
          mediaTimers, pending_media_counts, calls, unlockTimers, drainTimers,
          wire, forwards, mediaJobs, dcEvents, nextMsgId, nSends, nPurges,
          nDiscord, deferred, arrivals, processed, sendLog, incLog, doomed, epoch,
          channelCalls, tempFiles, sendCommands>>

ledgerVars == <<pendingMessageIds, idTimers, discord_sent_message_ids,
                discord_sent_messages, discord_sent_file_hashes,
                pendingMediaCounts, mediaTimers, pending_media_counts>>

(***************************************************************************)
(* createMessageHash: String(content).trim().toLowerCase(), then           *)
(* hash = (hash << 5) - hash + char, hash & hash.  The modelled texts are  *)
(* at most six code units long, for which the 32-bit value never wraps.    *)
(***************************************************************************)
IsSpace(c) == c \in {9, 10, 13, 32}

RECURSIVE TrimStart(_)
TrimStart(s) ==
  IF s # << >> /\ IsSpace(Head(s)) THEN TrimStart(Tail(s)) ELSE s

RECURSIVE TrimEnd(_)
TrimEnd(s) ==
  IF s # << >> /\ IsSpace(s[Len(s)]) THEN TrimEnd(SubSeq(s, 1, Len(s) - 1)) ELSE s

Trim(s) == TrimEnd(TrimStart(s))

ToLowerCase(s) == [i \in DOMAIN s |-> IF s[i] \in 65..90 THEN s[i] + 32 ELSE s[i]]

RECURSIVE HashLoop(_, _)
HashLoop(str, hash) ==
  IF str = << >> THEN hash
  ELSE HashLoop(Tail(str), ((hash * 32) - hash) + Head(str))

createMessageHash(content) == HashLoop(ToLowerCase(Trim(content)), 0)

(***************************************************************************)
(* The echo ledger (lib/database.js).  A lookup is a pair of operators:    *)
(* the boolean it returns and the table it leaves behind.                  *)
(***************************************************************************)

\* wasMessageIdSentFromDiscord: memory cache first, then the table.
IdInMemory(pmi, messageId) == messageId \in pmi

IdInTable(ids, messageId, t) ==
  \E r \in ids : r.wa_message_id = messageId /\ r.expires_at > t

wasMessageIdSentFromDiscord(pmi, ids, messageId, t) ==
  IdInMemory(pmi, messageId) \/ IdInTable(ids, messageId, t)

\* The memory hit returns at once; only the table hit runs
\* cleanupDiscordSentMessageId.
IdsAfterLookup(pmi, ids, messageId, t) ==
  IF IdInMemory(pmi, messageId) THEN ids
  ELSE IF IdInTable(ids, messageId, t)
       THEN {r \in ids : r.wa_message_id # messageId}
       ELSE ids

\* wasMessageSentFromDiscord: COUNT(*) of the unexpired rows with this chat
\* and hash; on a hit cleanupDiscordSentMessage deletes every row with this
\* chat and hash.
wasMessageSentFromDiscord(msgs, waChatId, content, t) ==
  \E i \in DOMAIN msgs :
     /\ msgs[i].wa_chat_id = waChatId
     /\ msgs[i].message_hash = createMessageHash(content)
     /\ msgs[i].expires_at > t

cleanupDiscordSentMessage(msgs, waChatId, messageHash) ==
  LET Keep(r) == ~(r.wa_chat_id = waChatId /\ r.message_hash = messageHash)
  IN  SelectSeq(msgs, Keep)

MsgsAfterLookup(msgs, waChatId, content, t) ==
  IF wasMessageSentFromDiscord(msgs, waChatId, content, t)
  THEN cleanupDiscordSentMessage(msgs, waChatId, createMessageHash(content))
  ELSE msgs

\* recordDiscordSentMessage
recordDiscordSentMessage(msgs, waChatId, content, t) ==
  Append(msgs, [wa_chat_id |-> waChatId,
                message_hash |-> createMessageHash(content),
                expires_at |-> t + ContentTtlMinutes])

\* shouldIgnoreOwnMedia, for a sender that is the bot's own number: the
\* memory counter first, then the table row.
MediaInMemory(memc, waChatId) == memc[waChatId] > 0

MediaInTable(dbc, waChatId, t) ==
  /\ waChatId \in DOMAIN dbc
  /\ dbc[waChatId].expires_at > t
  /\ dbc[waChatId].count > 0

shouldIgnoreOwnMedia(memc, dbc, waChatId, t) ==
  MediaInMemory(memc, waChatId) \/ MediaInTable(dbc, waChatId, t)

MemCountAfterLookup(memc, waChatId) ==
  IF MediaInMemory(memc, waChatId)
  THEN [memc EXCEPT ![waChatId] = @ - 1]
  ELSE memc

DbCountAfterLookup(memc, dbc, waChatId, t) ==
  IF MediaInMemory(memc, waChatId) THEN dbc
  ELSE IF MediaInTable(dbc, waChatId, t)
       THEN [dbc EXCEPT ![waChatId].count = @ - 1]
       ELSE dbc

(***************************************************************************)
(* The send lock and the deferral queue (lib/database.js).                 *)
(***************************************************************************)
NewLock == [locked |-> FALSE, queue |-> << >>]

\* Map.set on a map held as a function over the keys present.
MapSet(m, k, v) == [x \in DOMAIN m \cup {k} |-> IF x = k THEN v ELSE m[x]]

isChatLockedForSending(locks, chatId) ==
  IF chatId \in DOMAIN locks THEN locks[chatId].locked ELSE FALSE

lockChatForSending(locks, chatId) ==
  LET have == IF chatId \in DOMAIN locks THEN locks ELSE MapSet(locks, chatId, NewLock)
  IN  [have EXCEPT ![chatId].locked = TRUE]

\* (queueMessageForProcessing_mut: the lock entry is made, the message is
\* not kept)
queueMessageForProcessing_mut(locks, chatId, message) ==
  IF chatId \in DOMAIN locks THEN locks ELSE MapSet(locks, chatId, NewLock)
queueMessageForProcessing(locks, chatId, message) ==
  LET have == IF chatId \in DOMAIN locks THEN locks ELSE MapSet(locks, chatId, NewLock)
  IN  [have EXCEPT ![chatId].queue = Append(@, message)]

(***************************************************************************)
(* handleMessage, handleOwnMessage and handleReaction                      *)
(* (lib/whatsapp-manager.js), up to the first await.  A handler reads      *)
(* is_paused, chat_mappings, pendingMessageIds, now and epoch, and changes *)
(* the part of the state gathered in a record st, so that a drain can run  *)
(* it on one event after another:                                          *)
(*   locks  sendingLocks               ids    discord_sent_message_ids     *)
(*   msgs   discord_sent_messages      memc   pendingMediaCounts           *)
(*   dbc    pending_media_counts       proc   processed                    *)
(*   fwd    forwards                   calls  calls                        *)
(*   nSends nSends                     sendLog sendLog                     *)
(*   chcalls channelCalls                                                  *)
(***************************************************************************)
\* (getChatMuteState_mut: a handler that does not ask for the mute state)
getChatMuteState_mut(waChatId) == FALSE
getChatMuteState(waChatId) ==
  IF waChatId \in DOMAIN chat_mappings THEN chat_mappings[waChatId].is_muted ELSE FALSE

\* (getChatMapping_mut: a lookup that finds no row)
getChatMapping_mut(waChatId) == 0
getChatMapping(waChatId) ==
  IF waChatId \in DOMAIN chat_mappings THEN chat_mappings[waChatId].dc_channel_id ELSE 0

IsText(type) == type = "chat" \/ type = "text"

\* The command texts "!stats", "!pause", "!start" and "!help", and the
\* first code units of the help text.
CmdStats == <<33, 115, 116, 97, 116, 115>>
CmdPause == <<33, 112, 97, 117, 115, 101>>
CmdStart == <<33, 115, 116, 97, 114, 116>>
CmdHelp == <<33, 104, 101, 108, 112>>
HelpText == <<55356, 57097>>
StatsText == <<55357, 56522>>

\* ADMIN_WHATSAPP_CHAT_ID
StatsChatId == "c2"

\* const isCommand = message.body && (... === "!stats" || ...)
isCommandBody(body) ==
  ToLowerCase(Trim(body)) \in {CmdStats, CmdPause, CmdStart, CmdHelp}

\* message.from: the chat for a message of a third party, the account's own
\* number for a self-authored one.
FromOf(m) == IF m.isMe THEN "me" ELSE m.chat

\* A send wrapper up to its await of the platform call, without the lock.
SendStarted(st, chatId, kind, body, origin, fromBot, job) ==
  [st EXCEPT !.calls = @ \cup {[sid |-> st.nSends + 1, chat |-> chatId,
                                kind |-> kind, body |-> body, origin |-> origin,
                                job |-> job, stage |-> "called", msgId |-> 0]},
             !.nSends = @ + 1,
             !.sendLog = Append(@, [chat |-> chatId, kind |-> kind, body |-> body,
                                    origin |-> origin, fromBot |-> fromBot,
                                    msgId |-> 0, shape |-> "none", at |-> now,
                                    epoch |-> epoch, paused |-> is_paused,
                                    reaction |-> "none"])]

\* sendMessage(chatId, text) of a command reply.
ReplySent(st, chatId, body) ==
  SendStarted([st EXCEPT !.locks = lockChatForSending(@, chatId)],
              chatId, "text", body, "command", FALSE, 0)

\* The ledger kind that matches a self-authored event, in the order
\* handleOwnMessage asks: message id, pending-media counter (media only),
\* content hash.
OwnMessageMatch(st, m) ==
  IF wasMessageIdSentFromDiscord(pendingMessageIds, st.ids, m.id, now) THEN "echo_id"
  ELSE IF ~IsText(m.type) /\ shouldIgnoreOwnMedia(st.memc, st.dbc, m.chat, now)
       THEN "echo_counter"
  ELSE IF wasMessageSentFromDiscord(st.msgs, m.chat, m.body, now) THEN "echo_content"
  ELSE "forwarded"

Logged(st, m, outcome) ==
  Append(st.proc, [ev |-> m, outcome |-> outcome, at |-> now, epoch |-> epoch,
                   paused |-> is_paused,
                   muted |-> m.chat \in DOMAIN chat_mappings
                             /\ chat_mappings[m.chat].is_muted,
                   threw |-> {}])

\* getOrCreateChannel up to its first await: the registry is read, and the
\* call waits for the fetch of the bound channel ("fetch") or, without a
\* mapping, for the creation of a channel ("create").
ChannelCallStarted(st, f) ==
  LET existing == getChatMapping(f.chat) IN
  [st EXCEPT !.fwd = Append(@, [f EXCEPT !.existing = existing,
                                         !.stage = IF existing # 0 THEN "fetch"
                                                   ELSE "create",
                                         !.call = Len(st.chcalls) + 1]),
             !.chcalls = Append(@, [chat |-> f.chat, existing |-> existing,
                                    result |-> 0, created |-> FALSE,
                                    done |-> FALSE, purges |-> nPurges,
                                    fresh |-> nextChannelId,
                                    endPurges |-> nPurges,
                                    after |-> {k \in DOMAIN st.chcalls :
                                                 st.chcalls[k].done},
                                    name |-> f.name, kind |-> f.kind,
                                    ev |-> f.ev])]

\* getChatType: c1 stands for the id of a contact ("...@c.us"), c2 for the
\* id of a group ("...@g.us").
getChatType(chatId) == IF chatId = "c2" THEN "group" ELSE "contact"

\* chat?.name || sender?.pushname || "Unknown": the name an event carries
\* for its chat; the events the owner wrote may carry another name than
\* the events of the other party.
ChatNameOf(m) == <<m.chat, IF m.isMe THEN "owner" ELSE "peer">>

\* chatInfo.name of the send command, from getChatInfo or the identifier.
ChatInfoName(chatId) == <<chatId, "info">>

\* The call forwardMessageToDiscord(message, isOwnMessage), which goes on
\* after the handler's first await.
ForwardOf(m, isOwnMessage) ==
  [chat |-> m.chat, type |-> m.type, own |-> isOwnMessage, notice |-> FALSE,
   existing |-> 0, stage |-> "lookup", channel |-> 0, call |-> 0, ev |-> m.id,
   name |-> ChatNameOf(m), kind |-> getChatType(m.chat), quoted |-> m.quoted]

forwardMessageToDiscord(st, m, isOwnMessage) ==
  ChannelCallStarted([st EXCEPT !.proc = Logged(st, m, "forwarded")],
                     ForwardOf(m, isOwnMessage))

handleOwnMessage(st, m) ==
  LET match == OwnMessageMatch(st, m) IN
  CASE match = "echo_id" ->
         [st EXCEPT !.ids = IdsAfterLookup(pendingMessageIds, st.ids, m.id, now),
                    !.proc = Logged(st, m, match)]
    [] match = "echo_counter" ->
         [st EXCEPT !.memc = MemCountAfterLookup(st.memc, m.chat),
                    !.dbc = DbCountAfterLookup(st.memc, st.dbc, m.chat, now),
                    !.proc = Logged(st, m, match)]
    [] match = "echo_content" ->
         [st EXCEPT !.msgs = MsgsAfterLookup(st.msgs, m.chat, m.body, now),
                    !.proc = Logged(st, m, match)]
    [] OTHER -> forwardMessageToDiscord(st, m, TRUE)

\* The lookups of handleOwnMessage that read the durable store.
StoreLookups == {"id", "counter", "content"}

\* What the catch block of a lookup returns when a statement of the store
\* has thrown.
\* (LookupFailed_mut: the catch block reports an echo)
LookupFailed_mut == TRUE
LookupFailed == FALSE

\* The lookups of handleOwnMessage in their order when the statements of
\* the lookups in `fails` throw: the outcome, and the lookups that threw.
\* The memory caches are asked before the store.
OwnMessageMatchWith(st, m, fails) ==
  LET idMem == IdInMemory(pendingMessageIds, m.id)
      idHit == \/ idMem
               \/ IF "id" \in fails THEN LookupFailed
                  ELSE IdInTable(st.ids, m.id, now)
      media == ~IsText(m.type)
      cMem  == MediaInMemory(st.memc, m.chat)
      cHit  == \/ cMem
               \/ IF "counter" \in fails THEN LookupFailed
                  ELSE MediaInTable(st.dbc, m.chat, now)
      tHit  == IF "content" \in fails THEN LookupFailed
               ELSE wasMessageSentFromDiscord(st.msgs, m.chat, m.body, now)
  IN  [outcome |-> IF idHit THEN "echo_id"
                   ELSE IF media /\ cHit THEN "echo_counter"
                   ELSE IF tHit THEN "echo_content"
                   ELSE "forwarded",
       threw |-> (IF ~idMem THEN {"id"} ELSE {})
                 \cup (IF ~idHit /\ media /\ ~cMem THEN {"counter"} ELSE {})
                 \cup (IF ~idHit /\ ~(media /\ cHit) THEN {"content"} ELSE {})]

\* handleOwnMessage when the statements of the lookups in `fails` throw: a
\* lookup that threw has changed no row.
handleOwnMessageWith(st, m, fails) ==
  LET match == OwnMessageMatchWith(st, m, fails)
      threw == match.threw \cap fails
      Noted(proc) == [proc EXCEPT ![Len(proc)].threw = threw]
  IN
  CASE match.outcome = "echo_id" ->
         [st EXCEPT !.ids = IF "id" \in threw THEN @
                            ELSE IdsAfterLookup(pendingMessageIds, st.ids, m.id, now),
                    !.proc = Noted(Logged(st, m, match.outcome))]
    [] match.outcome = "echo_counter" ->
         [st EXCEPT !.memc = MemCountAfterLookup(st.memc, m.chat),
                    !.dbc = IF "counter" \in threw THEN @
                            ELSE DbCountAfterLookup(st.memc, st.dbc, m.chat, now),
                    !.proc = Noted(Logged(st, m, match.outcome))]
    [] match.outcome = "echo_content" ->
         [st EXCEPT !.msgs = IF "content" \in threw THEN @
                             ELSE MsgsAfterLookup(st.msgs, m.chat, m.body, now),
                    !.proc = Noted(Logged(st, m, match.outcome))]
    [] OTHER -> [forwardMessageToDiscord(st, m, TRUE) EXCEPT !.proc = Noted(@)]

\* handleMessage passes the event to handleOwnMessage.
ReachesOwnMessage(st, m) ==
  /\ m.isMe
  /\ ~is_paused
  /\ ~getChatMuteState(m.chat)
  /\ ~isChatLockedForSending(st.locks, m.chat)
  /\ ~isCommandBody(m.body)

\* handleStatsCommand awaits the statistics before it sends them ("stats");
\* handleHelpCommand sends the help text at once.
handleMessage(st, m) ==
  IF is_paused /\ ~isCommandBody(m.body)
  THEN [st EXCEPT !.proc = Logged(st, m, "paused")]
  ELSE IF getChatMuteState(m.chat) THEN [st EXCEPT !.proc = Logged(st, m, "muted")]
  ELSE IF isChatLockedForSending(st.locks, m.chat)
       THEN [st EXCEPT !.locks = queueMessageForProcessing(st.locks, m.chat, m)]
  ELSE IF ToLowerCase(Trim(m.body)) = CmdStats /\ FromOf(m) = StatsChatId
       THEN [st EXCEPT !.fwd = Append(@, [ForwardOf(m, m.isMe) EXCEPT !.stage = "stats"]),
                       !.proc = Logged(st, m, "command")]
  ELSE IF ToLowerCase(Trim(m.body)) = CmdHelp /\ ~m.isMe
       THEN ReplySent([st EXCEPT !.proc = Logged(st, m, "command")],
                      FromOf(m), HelpText)
  ELSE IF m.isMe THEN handleOwnMessage(st, m)
  ELSE forwardMessageToDiscord(st, m, FALSE)

\* A reaction goes to the bound channel with sendMessageToChannel; without
\* a mapping it is dropped.
handleReaction(st, r) ==
  IF is_paused THEN [st EXCEPT !.proc = Logged(st, r, "paused")]
  ELSE IF getChatMuteState(r.chat) THEN [st EXCEPT !.proc = Logged(st, r, "muted")]
  ELSE IF isChatLockedForSending(st.locks, r.chat)
       THEN [st EXCEPT !.locks = queueMessageForProcessing(st.locks, r.chat, r)]
  ELSE IF getChatMapping(r.chat) = 0
       THEN [st EXCEPT !.proc = Logged(st, r, "unmapped")]
  ELSE [st EXCEPT !.fwd = Append(@, [ForwardOf(r, r.isMe) EXCEPT
                                       !.stage = "post",
                                       !.existing = getChatMapping(r.chat),
                                       !.channel = getChatMapping(r.chat)]),
                  !.proc = Logged(st, r, "forwarded")]

\* queuedMessages.forEach(({ message, handler }) => handler(message))
RECURSIVE HandleAll(_, _)
HandleAll(st, queuedMessages) ==
  IF queuedMessages = << >> THEN st
  ELSE HandleAll(IF Head(queuedMessages).type = "reaction"
                 THEN handleReaction(st, Head(queuedMessages))
                 ELSE handleMessage(st, Head(queuedMessages)),
                 Tail(queuedMessages))

(***************************************************************************)
(* Writing to the ledger (lib/database.js).                                *)
(***************************************************************************)
\* recordDiscordSentMessageId: memory cache, INSERT OR IGNORE, removal timer.
IdRowInserted(ids, messageId, t) ==
  IF \E r \in ids : r.wa_message_id = messageId THEN ids
  ELSE ids \cup {[wa_message_id |-> messageId, expires_at |-> t + IdTtlMinutes]}

\* recordDiscordSentFileHash
FileRowInserted(files, waChatId, fileInfo, t) ==
  Append(files, [wa_chat_id |-> waChatId, filename |-> fileInfo.filename,
                 file_size |-> fileInfo.fileSize, expires_at |-> t + FileTtlMinutes])

\* incrementPendingMediaCount: the row of the chat is updated when there is
\* one (expired or not), inserted otherwise.
MediaRowIncremented(dbc, waChatId, count, t) ==
  IF waChatId \in DOMAIN dbc
  THEN [dbc EXCEPT ![waChatId] = [count |-> @.count + count,
                                  expires_at |-> t + MediaTtlMinutes]]
  ELSE MapSet(dbc, waChatId, [count |-> count, expires_at |-> t + MediaTtlMinutes])

\* The timer set by incrementPendingMediaCount.
MediaTimerApplied(memc, waChatId, count) ==
  IF memc[waChatId] <= count
  THEN [memc EXCEPT ![waChatId] = 0]
  ELSE [memc EXCEPT ![waChatId] = @ - count]

(***************************************************************************)
(* The state a handler starts from and the state it leaves.                *)
(***************************************************************************)
Cur == [locks |-> sendingLocks, ids |-> discord_sent_message_ids,
        msgs |-> discord_sent_messages, memc |-> pendingMediaCounts,
        dbc |-> pending_media_counts, proc |-> processed, fwd |-> forwards,
        calls |-> calls, nSends |-> nSends, sendLog |-> sendLog,
        chcalls |-> channelCalls]

QueuedIds(locks) ==
  UNION {{locks[c].queue[i].id : i \in DOMAIN locks[c].queue} : c \in DOMAIN locks}

Commit(st) ==
  /\ sendingLocks' = st.locks
  /\ discord_sent_message_ids' = st.ids
  /\ discord_sent_messages' = st.msgs
  /\ pendingMediaCounts' = st.memc
  /\ pending_media_counts' = st.dbc
  /\ processed' = st.proc
  /\ forwards' = st.fwd
  /\ calls' = st.calls
  /\ nSends' = st.nSends
  /\ sendLog' = st.sendLog
  /\ channelCalls' = st.chcalls
  /\ deferred' = deferred \cup QueuedIds(st.locks)
                   \cup {0 - id : id \in QueuedIds(st.locks) \cap
                                     UNION {{drainTimers[i][k].id :
                                               k \in DOMAIN drainTimers[i]} :
                                            i \in DOMAIN drainTimers}}

(***************************************************************************)
(* Inbound WhatsApp events: client.onAnyMessage -> handleMessage.          *)
(***************************************************************************)
EventTypes == {"chat", "image"}

\* A message somebody wrote on WhatsApp (the account owner on the phone, or
\* a third party); WhatsApp gives it a fresh id.
InboundMessage(limit, chats, senders, types, bodies) ==
  /\ Len(arrivals) < limit
  /\ \E chat \in chats, isMe \in senders, type \in types, body \in bodies :
       LET m == [id |-> nextMsgId, chat |-> chat, isMe |-> isMe,
                 type |-> type, body |-> body, quoted |-> "none"]
       IN  /\ arrivals' = Append(arrivals, m)
           /\ nextMsgId' = nextMsgId + 1
           /\ Commit(handleMessage(Cur, m))
  /\ UNCHANGED <<now, is_paused, chat_mappings, channels, nextChannelId,
                 pendingMessageIds, idTimers, discord_sent_file_hashes,
                 mediaTimers, unlockTimers, drainTimers, wire,
                 mediaJobs, dcEvents, nPurges, nDiscord,
                 incLog, doomed, epoch, tempFiles, sendCommands>>

\* A message that quotes an earlier message of the chat (message.quotedMsg).
InboundQuote(limit, chats, senders, types, bodies, quotedTypes) ==
  /\ Len(arrivals) < limit
  /\ \E chat \in chats, isMe \in senders, type \in types, body \in bodies,
        quoted \in quotedTypes :
       LET m == [id |-> nextMsgId, chat |-> chat, isMe |-> isMe,
                 type |-> type, body |-> body, quoted |-> quoted]
       IN  /\ arrivals' = Append(arrivals, m)
           /\ nextMsgId' = nextMsgId + 1
           /\ Commit(handleMessage(Cur, m))
  /\ UNCHANGED <<now, is_paused, chat_mappings, channels, nextChannelId,
                 pendingMessageIds, idTimers, discord_sent_file_hashes,
                 mediaTimers, unlockTimers, drainTimers, wire,
                 mediaJobs, dcEvents, nPurges, nDiscord,
                 incLog, doomed, epoch, tempFiles, sendCommands>>

\* client.onReaction -> handleReaction: somebody reacted to a message of
\* the chat.
InboundReaction(limit, chats, senders) ==
  /\ Len(arrivals) < limit
  /\ \E chat \in chats, isMe \in senders :
       LET r == [id |-> nextMsgId, chat |-> chat, isMe |-> isMe,
                 type |-> "reaction", body |-> NoText, quoted |-> "none"]
       IN  /\ arrivals' = Append(arrivals, r)
           /\ nextMsgId' = nextMsgId + 1
           /\ Commit(handleReaction(Cur, r))
  /\ UNCHANGED <<now, is_paused, chat_mappings, channels, nextChannelId,
                 pendingMessageIds, idTimers, discord_sent_file_hashes,
                 mediaTimers, unlockTimers, drainTimers, wire,
                 mediaJobs, dcEvents, nPurges, nDiscord,
                 incLog, doomed, epoch, tempFiles, sendCommands>>

\* The echo of a message the bridge sent: it carries the id WhatsApp gave
\* the sent message.
InboundEcho ==
  /\ \E m \in wire :
       /\ wire' = wire \ {m}
       /\ arrivals' = Append(arrivals, m)
       /\ Commit(handleMessage(Cur, m))
  /\ UNCHANGED <<now, is_paused, chat_mappings, channels, nextChannelId,
                 pendingMessageIds, idTimers, discord_sent_file_hashes,
                 mediaTimers, unlockTimers, drainTimers, mediaJobs,
                 dcEvents, nextMsgId, nPurges, nDiscord,
                 incLog, doomed, epoch, tempFiles, sendCommands>>

\* The echo of a message the bridge sent arrives while statements of the
\* store throw in some of the lookups of handleOwnMessage.
InboundEchoStoreThrows ==
  /\ \E m \in wire, fails \in (SUBSET StoreLookups) \ {{}} :
       /\ ReachesOwnMessage(Cur, m)
       /\ wire' = wire \ {m}
       /\ arrivals' = Append(arrivals, m)
       /\ Commit(handleOwnMessageWith(Cur, m, fails))
  /\ UNCHANGED <<now, is_paused, chat_mappings, channels, nextChannelId,
                 pendingMessageIds, idTimers, discord_sent_file_hashes,
                 mediaTimers, unlockTimers, drainTimers, mediaJobs,
                 dcEvents, nextMsgId, nPurges, nDiscord,
                 incLog, doomed, epoch, tempFiles, sendCommands>>

(***************************************************************************)
(* Outbound sends: the wrappers sendMessage, sendImage, sendDocument and   *)
(* sendSticker of lib/whatsapp-manager.js.  Each locks the chat, calls the *)
(* platform and, in its finally block, sets the 500 ms unlock timer.       *)
(***************************************************************************)
\* The wrappers the attachment loop picks by the MIME type of the file.
AttachmentKinds == {"image", "document"}

DocFile == [filename |-> "a.pdf", fileSize |-> 1]

\* The text that introduces a newly created channel, and the record text of
\* a sticker send ("!sticker <name>"), each by its first code units.
ConnectedText == <<55357, 56599>>
StickerText == <<33, 115>>

\* A message that is the URL of a GIF on tenor.com ("https..."), by its
\* first code units.
GifUrlText == <<104, 116, 116, 112, 115>>

\* extractGifUrls: the tenor.com and giphy.com URLs in the content.
extractGifUrls(content) == IF content = GifUrlText THEN <<content>> ELSE << >>

EchoType(kind) == IF kind = "text" THEN "chat" ELSE "image"

\* The wrapper up to its await of the platform call.
CallStarted(maxSends, chatId, kind, body, origin, fromBot, job) ==
  /\ nSends < maxSends
  /\ LET st == SendStarted(Cur, chatId, kind, body, origin, fromBot, job)
     IN  /\ calls' = st.calls
         /\ nSends' = st.nSends
         /\ sendLog' = st.sendLog

\* The finally block of a wrapper: setTimeout(() => unlockChatAfterSending(
\* chatId, result[, fileInfo]), 500).
\* (UnlockTimerSet_mut: the timer set at the end of the try block instead,
\* which a platform call that throws does not reach)
UnlockTimerSet_mut(c, result) ==
  IF result.shape = "null" THEN unlockTimers
  ELSE Append(unlockTimers,
              [sid |-> c.sid, chat |-> c.chat, result |-> result,
               fileInfo |-> IF c.kind = "document" THEN DocFile ELSE NoFile])
UnlockTimerSet(c, result) ==
  Append(unlockTimers,
         [sid |-> c.sid, chat |-> c.chat, result |-> result,
          fileInfo |-> IF c.kind = "document" THEN DocFile ELSE NoFile])

\* What the end of the platform call sets: the timer of the finally block
\* of the wrapper; sendVideoAsGif has no finally block and sets none.
WrapperEnded(c, result) ==
  IF c.kind = "gif" THEN unlockTimers ELSE UnlockTimerSet(c, result)

(***************************************************************************)
(* The attachment loops of handleDiscordMediaMessage and                   *)
(* handleStickerCommand (lib/discord-manager.js): a job is at the await of *)
(* a download ("download") or of a send wrapper ("send").                  *)
(***************************************************************************)
JobRecordText(job) == IF job.sticker THEN StickerText ELSE job.caption

\* What the loop records at the start of an iteration.
IterationRecorded(msgs, job) ==
  IF job.sticker \/ Trim(job.caption) # << >>
  THEN recordDiscordSentMessage(msgs, job.chat, JobRecordText(job), now)
  ELSE msgs

\* The loop moves on to its next attachment, or ends.
JobAdvanced(jobs, msgs, job) ==
  IF job.left > 1
  THEN [jobs |-> (jobs \ {job}) \cup {[job EXCEPT !.left = @ - 1, !.stage = "download"]},
        msgs |-> IterationRecorded(msgs, job)]
  ELSE [jobs |-> jobs \ {job}, msgs |-> msgs]

JobOf(c) == CHOOSE j \in mediaJobs : j.jid = c.job

\* What the caller of a wrapper does when the wrapper has returned or thrown.
CallerResumed(c, success) ==
  /\ IF c.job # 0
     THEN LET adv == JobAdvanced(mediaJobs, discord_sent_messages, JobOf(c))
          IN  /\ mediaJobs' = adv.jobs
              /\ discord_sent_messages' = adv.msgs
     ELSE UNCHANGED <<mediaJobs, discord_sent_messages>>
  /\ IF c.origin = "admin" /\ success
     THEN forwards' =
            Append(forwards, [chat |-> c.chat, type |-> "chat", own |-> TRUE,
                              notice |-> TRUE, existing |-> getChatMapping(c.chat),
                              stage |-> IF getChatMapping(c.chat) # 0 THEN "post"
                                        ELSE "lookup",
                              channel |-> getChatMapping(c.chat), call |-> 0,
                              ev |-> 0, name |-> ChatInfoName(c.chat),
                              kind |-> getChatType(c.chat), quoted |-> "none"])
     ELSE UNCHANGED forwards

\* The reaction the caller of a wrapper adds to the Discord message when
\* the wrapper has returned (message.react("\u2705") follows the await) or
\* thrown (message.react("\u274c") in the catch block).
ReactionAdded(c, shape) ==
  IF c.origin \in {"discord", "media", "sticker"}
  THEN (IF shape = "null" THEN "failure" ELSE "success")
  ELSE IF c.origin = "gif" /\ shape # "null" THEN "success"
  ELSE "none"

\* WhatsApp creates the message of a pending send; its echo is on the way.
PlatformAccept ==
  /\ \E c \in calls :
       /\ c.stage = "called"
       /\ calls' = (calls \ {c}) \cup {[c EXCEPT !.stage = "accepted", !.msgId = nextMsgId]}
       /\ wire' = wire \cup {[id |-> nextMsgId, chat |-> c.chat, isMe |-> TRUE,
                              type |-> EchoType(c.kind), body |-> c.body,
                              quoted |-> "none"]}
       /\ sendLog' = [sendLog EXCEPT ![c.sid].msgId = nextMsgId]
       /\ nextMsgId' = nextMsgId + 1
  /\ UNCHANGED <<now, is_paused, chat_mappings, channels, nextChannelId,
                 sendingLocks, ledgerVars, unlockTimers, drainTimers, forwards,
                 mediaJobs, dcEvents, nSends, nPurges, nDiscord, deferred,
                 arrivals, processed,
                 incLog, doomed, epoch, channelCalls, tempFiles,
                 sendCommands>>

\* The platform call resolves: with the message id, or with `true`.
PlatformReturn ==
  /\ \E c \in calls, shape \in {"id", "true"} :
       /\ c.stage = "accepted"
       /\ calls' = calls \ {c}
       /\ unlockTimers' = WrapperEnded(c, [shape |-> shape, id |-> c.msgId])
       /\ sendLog' = [sendLog EXCEPT ![c.sid].shape = shape,
                                     ![c.sid].reaction = ReactionAdded(c, shape)]
       /\ CallerResumed(c, TRUE)
  /\ UNCHANGED <<now, is_paused, chat_mappings, channels, nextChannelId,
                 sendingLocks, pendingMessageIds, idTimers,
                 discord_sent_message_ids, discord_sent_file_hashes,
                 pendingMediaCounts, mediaTimers, pending_media_counts,
                 drainTimers, wire, dcEvents, nextMsgId, nSends, nPurges,
                 nDiscord, deferred, arrivals, processed,
                 incLog, doomed, epoch, channelCalls, tempFiles,
                 sendCommands>>

\* The platform call fails: it rejects (result stays null) or resolves with
\* `false`; no message was created.
PlatformFail ==
  /\ \E c \in calls, shape \in {"null", "false"} :
       /\ c.stage = "called"
       /\ calls' = calls \ {c}
       /\ unlockTimers' = WrapperEnded(c, [shape |-> shape, id |-> 0])
       /\ sendLog' = [sendLog EXCEPT ![c.sid].shape = shape,
                                     ![c.sid].reaction = ReactionAdded(c, shape)]
       /\ IF c.kind = "gif" /\ shape = "null"
          THEN \* sendVideoAsGif rethrows: the catch block of handleGifUrls
               /\ mediaJobs' = (mediaJobs \ {JobOf(c)})
                                  \cup {[JobOf(c) EXCEPT !.stage = "fallback"]}
               /\ UNCHANGED <<discord_sent_messages, forwards>>
          ELSE CallerResumed(c, FALSE)
  /\ UNCHANGED <<now, is_paused, chat_mappings, channels, nextChannelId,
                 sendingLocks, pendingMessageIds, idTimers,
                 discord_sent_message_ids, discord_sent_file_hashes,
                 pendingMediaCounts, mediaTimers, pending_media_counts,
                 drainTimers, wire, dcEvents, nextMsgId, nSends, nPurges,
                 nDiscord, deferred, arrivals, processed,
                 incLog, doomed, epoch, channelCalls, tempFiles,
                 sendCommands>>

(***************************************************************************)
(* The messageCreate handler of lib/discord-manager.js.                    *)
(***************************************************************************)
CommandPrefix == 33

isCommand(content) == Trim(content) # << >> /\ Head(Trim(content)) = CommandPrefix

\* SELECT wa_chat_id FROM chat_mappings WHERE dc_channel_id = ?
WaChatIdOf(mappings, dcChannelId) ==
  IF \E c \in DOMAIN mappings : mappings[c].dc_channel_id = dcChannelId
  THEN CHOOSE c \in DOMAIN mappings : mappings[c].dc_channel_id = dcChannelId
  ELSE "none"

getWaChatIdFromChannel(dcChannelId) == WaChatIdOf(chat_mappings, dcChannelId)

\* if (message.author.bot) return
\* (IgnoresAuthor_mut: the handler without this line)
IgnoresAuthor_mut(message) == FALSE
IgnoresAuthor(message) == message.bot

\* Messages a Discord user can post in a chat channel: a text, attachments
\* with or without a caption, or attachments under the sticker command.
UserMessages ==
  {m \in [bot : {FALSE}, channel : channels,
          content : Texts \cup {NoText, StickerText, GifUrlText},
          attachments : 0..MaxAttachments] :
     m.content = NoText => m.attachments > 0}

\* The branch of the handler a message of a chat channel takes.
MessageRoute(message) ==
  IF IgnoresAuthor(message) THEN "ignored"
  ELSE IF isCommand(message.content)
       THEN (IF message.content = StickerText /\ message.attachments > 0
                /\ getWaChatIdFromChannel(message.channel) # "none"
             THEN "sticker" ELSE "ignored")
  ELSE IF getWaChatIdFromChannel(message.channel) = "none" THEN "ignored"
  ELSE IF message.attachments > 0 THEN "media"
  ELSE IF Trim(message.content) # << >>
       THEN (IF extractGifUrls(message.content) # << >> THEN "gif" ELSE "text")
  ELSE "ignored"

NewJob(message, waChatId, sticker) ==
  [jid |-> nDiscord + 1, chat |-> waChatId, left |-> message.attachments,
   caption |-> IF sticker THEN NoText ELSE message.content,
   sticker |-> sticker, fromBot |-> message.bot, stage |-> "download"]

MessageCreate(userMessages, maxMsgs, maxSends) ==
  /\ \E message \in dcEvents \cup userMessages :
       LET route == MessageRoute(message)
           waChatId == getWaChatIdFromChannel(message.channel)
       IN
       /\ message \in dcEvents \/ nDiscord < maxMsgs
       /\ dcEvents' = dcEvents \ {message}
       /\ nDiscord' = IF message \in dcEvents THEN nDiscord ELSE nDiscord + 1
       /\ CASE route = "text" ->
                 \* recordDiscordSentMessage, then sendMessage
                 /\ discord_sent_messages' =
                      recordDiscordSentMessage(discord_sent_messages, waChatId,
                                               Trim(message.content), now)
                 /\ sendingLocks' = lockChatForSending(sendingLocks, waChatId)
                 /\ CallStarted(maxSends, waChatId, "text", Trim(message.content),
                                "discord", message.bot, 0)
                 /\ UNCHANGED <<pendingMediaCounts, mediaTimers,
                                pending_media_counts, mediaJobs, incLog>>
            [] route = "media" ->
                 \* handleDiscordMediaMessage up to the first download
                 LET job == NewJob(message, waChatId, FALSE) IN
                 /\ pendingMediaCounts' =
                      [pendingMediaCounts EXCEPT ![waChatId] = @ + message.attachments]
                 /\ pending_media_counts' =
                      MediaRowIncremented(pending_media_counts, waChatId,
                                          message.attachments, now)
                 /\ mediaTimers' =
                      Append(mediaTimers, [chat |-> waChatId,
                                           count |-> message.attachments,
                                           fireAt |-> now + MediaTtlMinutes])
                 /\ discord_sent_messages' = IterationRecorded(discord_sent_messages, job)
                 /\ mediaJobs' = mediaJobs \cup {job}
                 /\ incLog' = Append(incLog, [chat |-> waChatId,
                                              count |-> message.attachments,
                                              at |-> now])
                 /\ UNCHANGED <<sendingLocks, calls, nSends, sendLog>>
            [] route = "sticker" ->
                 \* handleStickerCommand up to the first download
                 LET job == NewJob(message, waChatId, TRUE) IN
                 /\ discord_sent_messages' = IterationRecorded(discord_sent_messages, job)
                 /\ mediaJobs' = mediaJobs \cup {job}
                 /\ UNCHANGED <<pendingMediaCounts, mediaTimers,
                                pending_media_counts, sendingLocks, calls,
                                nSends, sendLog, incLog>>
            [] route = "gif" ->
                 \* handleGifUrls up to the download of the GIF; no text is
                 \* left of the content without its URL
                 /\ mediaJobs' = mediaJobs \cup
                      {[NewJob(message, waChatId, FALSE) EXCEPT
                          !.left = Len(extractGifUrls(message.content)),
                          !.caption = NoText, !.stage = "gif"]}
                 /\ UNCHANGED <<discord_sent_messages, pendingMediaCounts,
                                mediaTimers, pending_media_counts,
                                sendingLocks, calls, nSends, sendLog, incLog>>
            [] OTHER ->
                 UNCHANGED <<discord_sent_messages, pendingMediaCounts,
                             mediaTimers, pending_media_counts, mediaJobs,
                             sendingLocks, calls, nSends, sendLog, incLog>>
  /\ UNCHANGED <<now, is_paused, chat_mappings, channels, nextChannelId,
                 pendingMessageIds, idTimers, discord_sent_message_ids,
                 discord_sent_file_hashes, unlockTimers, drainTimers, wire,
                 forwards, nextMsgId, nPurges, deferred, arrivals, processed,
                 doomed, epoch, channelCalls, tempFiles, sendCommands>>

\* A download of the attachment loop ends: the attachment goes to its send
\* wrapper (sendImage, sendDocument or sendSticker), which locks the chat
\* and calls the platform.
AttachmentSend(maxSends, kinds) ==
  /\ \E job \in mediaJobs, kind \in kinds :
       /\ job.stage = "download"
       /\ mediaJobs' = (mediaJobs \ {job}) \cup {[job EXCEPT !.stage = "send"]}
       /\ sendingLocks' = lockChatForSending(sendingLocks, job.chat)
       /\ CallStarted(maxSends, job.chat, IF job.sticker THEN "sticker" ELSE kind,
                      job.caption, IF job.sticker THEN "sticker" ELSE "media",
                      job.fromBot, job.jid)
  /\ UNCHANGED <<now, is_paused, chat_mappings, channels, nextChannelId,
                 ledgerVars, unlockTimers, drainTimers, wire, forwards,
                 dcEvents, nextMsgId, nPurges, nDiscord, deferred, arrivals,
                 processed,
                 incLog, doomed, epoch, channelCalls, tempFiles,
                 sendCommands>>

\* The download failed: `continue` with the next attachment.
AttachmentSkip ==
  /\ \E job \in mediaJobs :
       /\ job.stage = "download"
       /\ LET adv == JobAdvanced(mediaJobs, discord_sent_messages, job)
          IN  /\ mediaJobs' = adv.jobs
              /\ discord_sent_messages' = adv.msgs
  /\ UNCHANGED <<now, is_paused, chat_mappings, channels, nextChannelId,
                 sendingLocks, pendingMessageIds, idTimers,
                 discord_sent_message_ids, discord_sent_file_hashes,
                 pendingMediaCounts, mediaTimers, pending_media_counts, calls,
                 unlockTimers, drainTimers, wire, forwards, dcEvents,
                 nextMsgId, nSends, nPurges, nDiscord, deferred, arrivals,
                 processed, sendLog,
                 incLog, doomed, epoch, channelCalls, tempFiles,
                 sendCommands>>

\* handleGifUrls after downloadGifFromUrl: without the file the loop goes
\* on (the job ends); with it the GIF is counted as one pending media and,
\* converted to MP4, sent with sendVideoAsGif, which calls the platform
\* without taking the lock; without ffmpeg it goes to sendVideo, a wrapper
\* with the lock.
GifDownloaded(maxSends) ==
  /\ \E job \in mediaJobs, gifData \in BOOLEAN, ffmpegAvailable \in BOOLEAN :
       /\ job.stage = "gif"
       /\ IF ~gifData
          THEN /\ mediaJobs' = mediaJobs \ {job}
               /\ UNCHANGED <<pendingMediaCounts, pending_media_counts,
                              mediaTimers, incLog, sendingLocks, calls, nSends,
                              sendLog>>
          ELSE /\ mediaJobs' = (mediaJobs \ {job}) \cup {[job EXCEPT !.stage = "send"]}
               /\ pendingMediaCounts' = [pendingMediaCounts EXCEPT ![job.chat] = @ + 1]
               /\ pending_media_counts' =
                    MediaRowIncremented(pending_media_counts, job.chat, 1, now)
               /\ mediaTimers' = Append(mediaTimers,
                                        [chat |-> job.chat, count |-> 1,
                                         fireAt |-> now + MediaTtlMinutes])
               /\ incLog' = Append(incLog, [chat |-> job.chat, count |-> 1,
                                            at |-> now])
               /\ IF ffmpegAvailable
                  THEN /\ CallStarted(maxSends, job.chat, "gif", NoText, "gif",
                                      job.fromBot, job.jid)
                       /\ UNCHANGED sendingLocks
                  ELSE /\ sendingLocks' = lockChatForSending(sendingLocks, job.chat)
                       /\ CallStarted(maxSends, job.chat, "video", NoText,
                                      "media", job.fromBot, job.jid)
  /\ UNCHANGED <<now, is_paused, chat_mappings, channels, nextChannelId,
                 pendingMessageIds, idTimers, discord_sent_message_ids,
                 discord_sent_messages, discord_sent_file_hashes, unlockTimers,
                 drainTimers, wire, forwards, dcEvents, nextMsgId, nPurges,
                 nDiscord, deferred, arrivals, processed, doomed, epoch,
                 channelCalls, tempFiles, sendCommands>>

\* The catch block around the conversion and sendVideoAsGif: the original
\* GIF goes to sendVideo.
GifFallback(maxSends) ==
  /\ \E job \in mediaJobs :
       /\ job.stage = "fallback"
       /\ mediaJobs' = (mediaJobs \ {job}) \cup {[job EXCEPT !.stage = "send"]}
       /\ sendingLocks' = lockChatForSending(sendingLocks, job.chat)
       /\ CallStarted(maxSends, job.chat, "video", NoText, "media",
                      job.fromBot, job.jid)
  /\ UNCHANGED <<now, is_paused, chat_mappings, channels, nextChannelId,
                 ledgerVars, unlockTimers, drainTimers, wire, forwards,
                 dcEvents, nextMsgId, nPurges, nDiscord, deferred, arrivals,
                 processed, incLog, doomed, epoch, channelCalls, tempFiles,
                 sendCommands>>

\* handleSendCommand: the administrator's send command, from the check of
\* the target chat to the platform call of sendMessage.  The command does
\* not record the text in the ledger.
AdminSendCommand(chats, texts, maxMsgs, maxSends) ==
  /\ nDiscord < maxMsgs
  /\ \E chatId \in chats, messageText \in texts :
       /\ sendingLocks' = lockChatForSending(sendingLocks, chatId)
       /\ CallStarted(maxSends, chatId, "text", messageText, "admin", FALSE, 0)
  /\ nDiscord' = nDiscord + 1
  /\ UNCHANGED <<now, is_paused, chat_mappings, channels, nextChannelId,
                 ledgerVars, unlockTimers, drainTimers, wire, forwards,
                 mediaJobs, dcEvents, nextMsgId, nPurges, deferred, arrivals,
                 processed,
                 incLog, doomed, epoch, channelCalls, tempFiles,
                 sendCommands>>

(***************************************************************************)
(* handleSendCommand (lib/discord-manager.js) from the identifier on: the  *)
(* classification of args[1], the confirmation dialog of the index branch  *)
(* and the send.  Identifiers are sequences of code units.                 *)
(***************************************************************************)
IsDigit(c) == c \in 48..57

RECURSIVE DigitsValue(_, _)
\* The value of the digits at the front of str, after acc.
DigitsValue(str, acc) ==
  IF str = << >> \/ ~IsDigit(Head(str)) THEN acc
  ELSE DigitsValue(Tail(str), acc * 10 + (Head(str) - 48))

\* Number.parseInt(string): leading white space, a sign, then the digits up
\* to the first other character; NaN without a digit.
ParseInt(string) ==
  LET t == TrimStart(string)
      signed == t # << >> /\ Head(t) \in {43, 45}
      digits == IF signed THEN Tail(t) ELSE t
  IN  IF digits = << >> \/ ~IsDigit(Head(digits))
      THEN [nan |-> TRUE, value |-> 0]
      ELSE [nan |-> FALSE,
            value |-> IF signed /\ Head(t) = 45 THEN 0 - DigitsValue(digits, 0)
                      ELSE DigitsValue(digits, 0)]

EndsWith(str, suffix) ==
  /\ Len(str) >= Len(suffix)
  /\ SubSeq(str, Len(str) - Len(suffix) + 1, Len(str)) = suffix

\* "@c.us" and "@g.us"
ContactSuffix == <<64, 99, 46, 117, 115>>
GroupSuffix == <<64, 103, 46, 117, 115>>

\* chatIdentifier.replace(/[^\d+]/g, ""), without a leading "+", + "@c.us"
PhoneChatId(chatIdentifier) ==
  LET kept == SelectSeq(chatIdentifier, LAMBDA c : IsDigit(c) \/ c = 43)
  IN  (IF kept # << >> /\ Head(kept) = 43 THEN Tail(kept) ELSE kept) \o ContactSuffix

\* The id of chat c1 is "12@c.us", the id of chat c2 is "34@g.us".
ChatIdText(c) == IF c = "c1" THEN <<49, 50>> \o ContactSuffix
                 ELSE <<51, 52>> \o GroupSuffix

\* checkChatExists(chatId): the chat of that id, if WhatsApp has one.
ChatOfId(chatId) ==
  IF \E c \in Chats : ChatIdText(c) = chatId
  THEN CHOOSE c \in Chats : ChatIdText(c) = chatId
  ELSE "none"

\* getChatListCache(message.author.id): null, or the list !getchats cached
\* less than five minutes ago.
CacheStates == {[cached |-> FALSE, chats |-> << >>],
                [cached |-> TRUE, chats |-> <<"c1", "c2">>]}

\* The branch handleSendCommand takes for args[1], and the chat it goes on
\* with.
SendTarget(chatIdentifier, cache) ==
  LET indexNumber == ParseInt(chatIdentifier) IN
  IF ~indexNumber.nan /\ indexNumber.value > 0
  THEN IF ~cache.cached
       THEN [route |-> "index", outcome |-> "expired", chat |-> "none"]
       ELSE IF indexNumber.value > Len(cache.chats)
       THEN [route |-> "index", outcome |-> "invalid_index", chat |-> "none"]
       ELSE [route |-> "index", outcome |-> "dialog",
             chat |-> cache.chats[indexNumber.value]]
  ELSE LET phone == \A i \in DOMAIN chatIdentifier : chatIdentifier[i] # 64
           chatId == IF phone THEN PhoneChatId(chatIdentifier) ELSE chatIdentifier
           route == IF phone THEN "phone" ELSE "chatId"
       IN  IF ~EndsWith(chatId, ContactSuffix) /\ ~EndsWith(chatId, GroupSuffix)
           THEN [route |-> route, outcome |-> "invalid_format", chat |-> "none"]
           ELSE IF ChatOfId(chatId) = "none"
           THEN [route |-> route, outcome |-> "no_chat", chat |-> "none"]
           ELSE [route |-> route, outcome |-> "send", chat |-> ChatOfId(chatId)]

\* The filter of confirmMsg.awaitReactions: the two emojis, and only the
\* author of the command.
\* (ReactionFilter_mut: the filter without the comparison of the user)
ReactionFilter_mut(emoji, userId, authorId) == emoji \in {"confirm", "cancel"}
ReactionFilter(emoji, userId, authorId) ==
  emoji \in {"confirm", "cancel"} /\ userId = authorId

\* What the user typed for args[1], with what it is: an index of the list
\* of !getchats, a phone number, or a chat id.
Identifiers ==
  {[text |-> <<49>>, kind |-> "index", target |-> "c1"],
   [text |-> <<49, 50>>, kind |-> "phone", target |-> "c1"],
   [text |-> <<43, 49, 50>>, kind |-> "phone", target |-> "c1"],
   [text |-> ChatIdText("c1"), kind |-> "chatId", target |-> "c1"],
   [text |-> ChatIdText("c2"), kind |-> "chatId", target |-> "c2"]}

Authors == {"u1"}

ReactionUsers == {"u1", "u2", "bot"}

Emojis == {"confirm", "cancel", "other"}

\* The command up to the dialog it shows, the reply that ends it, or the
\* platform call of sendMessage.
handleSendCommand(maxCommands, maxSends) ==
  /\ Len(sendCommands) < maxCommands
  /\ \E identifier \in Identifiers, author \in Authors, cache \in CacheStates :
       LET t == SendTarget(identifier.text, cache)
           command == [author |-> author, identifier |-> identifier,
                       route |-> t.route, state |-> t.outcome, chat |-> t.chat,
                       dialog |-> t.outcome = "dialog", sid |-> 0,
                       collected |-> <<"none", "none">>, ignored |-> {}]
       IN
       IF t.outcome = "send"
       THEN /\ sendingLocks' = lockChatForSending(sendingLocks, t.chat)
            /\ CallStarted(maxSends, t.chat, "text", TextHi, "admin", FALSE, 0)
            /\ sendCommands' = Append(sendCommands,
                                      [command EXCEPT !.state = "sent",
                                                      !.sid = nSends + 1])
       ELSE /\ sendCommands' = Append(sendCommands, command)
            /\ UNCHANGED <<sendingLocks, calls, nSends, sendLog>>
  /\ UNCHANGED <<now, is_paused, chat_mappings, channels, nextChannelId,
                 ledgerVars, unlockTimers, drainTimers, wire, forwards,
                 mediaJobs, dcEvents, nextMsgId, nPurges, nDiscord, deferred,
                 arrivals, processed, incLog, doomed, epoch, channelCalls,
                 tempFiles>>

\* Somebody reacts to the confirmation message within the 30 seconds: a
\* reaction that passes the filter ends awaitReactions (max: 1), and the
\* command is cancelled or goes on to sendMessage.
DialogReaction(maxSends) ==
  /\ \E k \in DOMAIN sendCommands, userId \in ReactionUsers, emoji \in Emojis :
       LET command == sendCommands[k] IN
       /\ command.state = "dialog"
       /\ IF ~ReactionFilter(emoji, userId, command.author)
          THEN /\ sendCommands' =
                    [sendCommands EXCEPT ![k].ignored =
                        IF emoji = "confirm" THEN @ \cup {userId} ELSE @]
               /\ UNCHANGED <<sendingLocks, calls, nSends, sendLog>>
          ELSE IF emoji = "cancel"
          THEN /\ sendCommands' =
                    [sendCommands EXCEPT ![k].state = "cancelled",
                                         ![k].collected = <<userId, emoji>>]
               /\ UNCHANGED <<sendingLocks, calls, nSends, sendLog>>
          ELSE /\ sendingLocks' = lockChatForSending(sendingLocks, command.chat)
               /\ CallStarted(maxSends, command.chat, "text", TextHi, "admin",
                              FALSE, 0)
               /\ sendCommands' =
                    [sendCommands EXCEPT ![k].state = "sent",
                                         ![k].sid = nSends + 1,
                                         ![k].collected = <<userId, emoji>>]
  /\ UNCHANGED <<now, is_paused, chat_mappings, channels, nextChannelId,
                 ledgerVars, unlockTimers, drainTimers, wire, forwards,
                 mediaJobs, dcEvents, nextMsgId, nPurges, nDiscord, deferred,
                 arrivals, processed, incLog, doomed, epoch, channelCalls,
                 tempFiles>>

\* The 30 seconds of awaitReactions are over: collected.size === 0.
DialogTimeout ==
  /\ \E k \in DOMAIN sendCommands :
       /\ sendCommands[k].state = "dialog"
       /\ sendCommands' = [sendCommands EXCEPT ![k].state = "timeout"]
  /\ UNCHANGED <<now, is_paused, chat_mappings, channels, nextChannelId,
                 sendingLocks, ledgerVars, calls, unlockTimers, drainTimers,
                 wire, forwards, mediaJobs, dcEvents, nextMsgId, nSends,
                 nPurges, nDiscord, deferred, arrivals, processed, sendLog,
                 incLog, doomed, epoch, channelCalls, tempFiles>>

(***************************************************************************)
(* unlockChatAfterSending, run by the 500 ms timer of a send wrapper, and  *)
(* the 100 ms drain timer it sets.  Timers of one delay fire in the order  *)
(* they were set.                                                          *)
(***************************************************************************)
\* What unlockChatAfterSending records for the result of the send.
RecordsId(result) == result.shape = "id"

RecordsFile(result, fileInfo) == result.shape = "true" /\ fileInfo # NoFile

UnlockTimerFire ==
  /\ unlockTimers # << >>
  /\ LET t == Head(unlockTimers)
         lock == sendingLocks[t.chat]
     IN
     /\ unlockTimers' = Tail(unlockTimers)
     /\ IF t.chat \notin DOMAIN sendingLocks
        THEN \* if (!this.sendingLocks.has(chatId)) return
             UNCHANGED <<sendingLocks, pendingMessageIds, idTimers,
                         discord_sent_message_ids, discord_sent_file_hashes,
                         drainTimers>>
        ELSE /\ IF RecordsId(t.result)
                THEN /\ pendingMessageIds' = pendingMessageIds \cup {t.result.id}
                     /\ discord_sent_message_ids' =
                          IdRowInserted(discord_sent_message_ids, t.result.id, now)
                     /\ idTimers' = idTimers \cup
                          {[id |-> t.result.id, fireAt |-> now + IdTtlMinutes]}
                     /\ UNCHANGED discord_sent_file_hashes
                ELSE IF RecordsFile(t.result, t.fileInfo)
                THEN /\ discord_sent_file_hashes' =
                          FileRowInserted(discord_sent_file_hashes, t.chat, t.fileInfo, now)
                     /\ UNCHANGED <<pendingMessageIds, discord_sent_message_ids, idTimers>>
                ELSE UNCHANGED <<pendingMessageIds, discord_sent_message_ids,
                                 idTimers, discord_sent_file_hashes>>
             /\ sendingLocks' = [sendingLocks EXCEPT ![t.chat] = NewLock]
             /\ drainTimers' = IF lock.queue # << >>
                               THEN Append(drainTimers, lock.queue)
                               ELSE drainTimers
  /\ UNCHANGED <<now, is_paused, chat_mappings, channels, nextChannelId,
                 discord_sent_messages, pendingMediaCounts, mediaTimers,
                 pending_media_counts, calls, wire, forwards, mediaJobs,
                 dcEvents, nextMsgId, nSends, nPurges, nDiscord, deferred,
                 arrivals, processed, sendLog,
                 incLog, doomed, epoch, channelCalls, tempFiles,
                 sendCommands>>

\* setTimeout(() => queuedMessages.forEach(...), 100)
DrainTimerFire ==
  /\ drainTimers # << >>
  /\ drainTimers' = Tail(drainTimers)
  /\ Commit(HandleAll(Cur, Head(drainTimers)))
  /\ UNCHANGED <<now, is_paused, chat_mappings, channels, nextChannelId,
                 pendingMessageIds, idTimers, discord_sent_file_hashes,
                 mediaTimers, unlockTimers, wire, mediaJobs, dcEvents,
                 nextMsgId, nPurges, nDiscord, arrivals,
                 incLog, doomed, epoch, tempFiles, sendCommands>>

(***************************************************************************)
(* The clock, the cache timers and the periodic cleanup.                   *)
(***************************************************************************)
\* setTimeout(() => this.pendingMessageIds.delete(messageId), ttl)
IdTimerFire ==
  /\ \E t \in idTimers :
       /\ t.fireAt <= now
       /\ idTimers' = idTimers \ {t}
       /\ pendingMessageIds' = pendingMessageIds \ {t.id}
  /\ UNCHANGED <<now, is_paused, chat_mappings, channels, nextChannelId,
                 sendingLocks, discord_sent_message_ids, discord_sent_messages,
                 discord_sent_file_hashes, pendingMediaCounts, mediaTimers,
                 pending_media_counts, calls, unlockTimers, drainTimers, wire,
                 forwards, mediaJobs, dcEvents, nextMsgId, nSends, nPurges,
                 nDiscord, deferred, arrivals, processed, sendLog,
                 incLog, doomed, epoch, channelCalls, tempFiles,
                 sendCommands>>

\* The timer of incrementPendingMediaCount.
MediaTimerFire ==
  /\ mediaTimers # << >>
  /\ Head(mediaTimers).fireAt <= now
  /\ mediaTimers' = Tail(mediaTimers)
  /\ pendingMediaCounts' = MediaTimerApplied(pendingMediaCounts,
                                             Head(mediaTimers).chat,
                                             Head(mediaTimers).count)
  /\ UNCHANGED <<now, is_paused, chat_mappings, channels, nextChannelId,
                 sendingLocks, pendingMessageIds, idTimers,
                 discord_sent_message_ids, discord_sent_messages,
                 discord_sent_file_hashes, pending_media_counts, calls,
                 unlockTimers, drainTimers, wire, forwards, mediaJobs,
                 dcEvents, nextMsgId, nSends, nPurges, nDiscord, deferred,
                 arrivals, processed, sendLog,
                 incLog, doomed, epoch, channelCalls, tempFiles,
                 sendCommands>>

\* Time passes.  The sub-second timers and the cache timers that are due
\* fire before the clock reaches the next point of the grid.
Tick ==
  /\ now + TickMinutes <= MaxTime
  /\ unlockTimers = << >>
  /\ drainTimers = << >>
  /\ \A t \in idTimers : t.fireAt > now
  /\ \A i \in DOMAIN mediaTimers : mediaTimers[i].fireAt > now
  /\ now' = now + TickMinutes
  /\ UNCHANGED <<is_paused, chat_mappings, channels, nextChannelId,
                 sendingLocks, ledgerVars, calls, unlockTimers, drainTimers,
                 wire, forwards, mediaJobs, dcEvents, nextMsgId, nSends,
                 nPurges, nDiscord, deferred, arrivals, processed, sendLog,
                 incLog, doomed, epoch, channelCalls, tempFiles,
                 sendCommands>>

\* startPeriodicDatabaseCleanup (index.js): the four cleanupExpired* calls.
Unexpired(r) == r.expires_at > now

PeriodicCleanup ==
  /\ discord_sent_messages' = SelectSeq(discord_sent_messages, Unexpired)
  /\ discord_sent_message_ids' = {r \in discord_sent_message_ids : Unexpired(r)}
  /\ discord_sent_file_hashes' = SelectSeq(discord_sent_file_hashes, Unexpired)
  /\ pending_media_counts' =
       [c \in {x \in DOMAIN pending_media_counts : Unexpired(pending_media_counts[x])}
          |-> pending_media_counts[c]]
  /\ \/ discord_sent_messages' # discord_sent_messages
     \/ discord_sent_message_ids' # discord_sent_message_ids
     \/ discord_sent_file_hashes' # discord_sent_file_hashes
     \/ pending_media_counts' # pending_media_counts
  /\ UNCHANGED <<now, is_paused, chat_mappings, channels, nextChannelId,
                 sendingLocks, pendingMessageIds, idTimers, pendingMediaCounts,
                 mediaTimers, calls, unlockTimers, drainTimers, wire, forwards,
                 mediaJobs, dcEvents, nextMsgId, nSends, nPurges, nDiscord,
                 deferred, arrivals, processed, sendLog,
                 incLog, doomed, epoch, channelCalls, tempFiles,
                 sendCommands>>

(***************************************************************************)
(* forwardMessageToDiscord past the classification: the awaits of          *)
(* getOrCreateChannel (lib/discord-manager.js) and the post in the         *)
(* channel.                                                                *)
(***************************************************************************)
RemoveAt(seq, i) == SubSeq(seq, 1, i - 1) \o SubSeq(seq, i + 1, Len(seq))

BotPost(channelId, content, attachments) ==
  [bot |-> TRUE, channel |-> channelId, content |-> content, attachments |-> attachments]

\* UPDATE chat_mappings SET last_activity = ..., message_count =
\* message_count + 1 WHERE wa_chat_id = ?
updateLastActivity(mappings, waChatId) ==
  IF waChatId \in DOMAIN mappings
  THEN [mappings EXCEPT ![waChatId].message_count = @ + 1]
  ELSE mappings

\* INSERT INTO chat_mappings (wa_chat_id, dc_channel_id, chat_name, chat_type)
\* VALUES (?, ?, ?, ?) of the INSERT, with the defaults of the other columns
\* (NewRow_mut: the name bound to the chat_type column)
NewRow_mut(dcChannelId, chatName, chatType) ==
  [dc_channel_id |-> dcChannelId, chat_name |-> chatName, chat_type |-> chatName,
   is_muted |-> FALSE, message_count |-> 0]
NewRow(dcChannelId, chatName, chatType) ==
  [dc_channel_id |-> dcChannelId, chat_name |-> chatName, chat_type |-> chatType,
   is_muted |-> FALSE, message_count |-> 0]

\* (createChatMapping_mut: no row is written)
createChatMapping_mut(mappings, waChatId, dcChannelId, chatName, chatType) == mappings
createChatMapping(mappings, waChatId, dcChannelId, chatName, chatType) ==
  MapSet(mappings, waChatId, NewRow(dcChannelId, chatName, chatType))

\* UPDATE chat_mappings SET dc_channel_id = ?, ... WHERE wa_chat_id = ?
\* (MappingRebound_mut: the statement without its WHERE clause)
MappingRebound_mut(mappings, waChatId, dcChannelId, chatName, chatType) ==
  [c \in DOMAIN mappings |-> [mappings[c] EXCEPT !.dc_channel_id = dcChannelId,
                                                   !.chat_name = chatName,
                                                   !.chat_type = chatType]]
MappingRebound(mappings, waChatId, dcChannelId, chatName, chatType) ==
  IF waChatId \in DOMAIN mappings
  THEN [mappings EXCEPT ![waChatId].dc_channel_id = dcChannelId,
                        ![waChatId].chat_name = chatName,
                        ![waChatId].chat_type = chatType]
  ELSE mappings

\* The getOrCreateChannel call of a forward returns or throws.
CallEnded(f, result, created) ==
  IF f.call = 0 THEN channelCalls
  ELSE [channelCalls EXCEPT ![f.call].result = result,
                            ![f.call].created = created,
                            ![f.call].done = TRUE,
                            ![f.call].endPurges = nPurges]

\* The send command, after getChatInfo, calls getOrCreateChannel for a chat
\* that had no mapping.
ChannelLookup ==
  /\ \E i \in DOMAIN forwards :
       /\ forwards[i].stage = "lookup"
       /\ LET st == ChannelCallStarted([Cur EXCEPT !.fwd = RemoveAt(forwards, i)],
                                       forwards[i])
          IN  /\ forwards' = st.fwd
              /\ channelCalls' = st.chcalls
  /\ UNCHANGED <<now, is_paused, chat_mappings, channels, nextChannelId,
                 sendingLocks, ledgerVars, calls, unlockTimers, drainTimers,
                 wire, mediaJobs, dcEvents, nextMsgId, nSends, nPurges,
                 nDiscord, deferred, arrivals, processed, sendLog, incLog, doomed,
                 epoch, tempFiles, sendCommands>>

\* client.channels.fetch(existingMapping.dc_channel_id) resolves or throws.
ChannelFetched ==
  /\ \E i \in DOMAIN forwards :
       LET f == forwards[i] IN
       /\ f.stage = "fetch"
       /\ IF f.existing \in channels
          THEN /\ chat_mappings' = updateLastActivity(chat_mappings, f.chat)
               /\ forwards' = [forwards EXCEPT ![i].stage = "post",
                                               ![i].channel = f.existing]
               /\ channelCalls' = CallEnded(f, f.existing, FALSE)
          ELSE /\ forwards' = [forwards EXCEPT ![i].stage = "create"]
               /\ UNCHANGED <<chat_mappings, channelCalls>>
  /\ UNCHANGED <<now, is_paused, channels, nextChannelId, sendingLocks,
                 ledgerVars, calls, unlockTimers, drainTimers, wire, mediaJobs,
                 dcEvents, nextMsgId, nSends, nPurges, nDiscord, deferred,
                 arrivals, processed, sendLog, incLog, doomed, epoch,
                 tempFiles, sendCommands>>

\* guild.channels.create(...) resolves: the mapping read at the start of
\* the call is updated, or a mapping is inserted; the insert throws when
\* the chat has a row by now (wa_chat_id is UNIQUE), which ends the forward.
\* Then the introduction is posted and the call returns the new channel.
ChannelCreated ==
  /\ \E i \in DOMAIN forwards :
       LET f == forwards[i]
           throws == f.existing = 0 /\ f.chat \in DOMAIN chat_mappings
       IN
       /\ f.stage = "create"
       /\ channels' = channels \cup {nextChannelId}
       /\ nextChannelId' = nextChannelId + 1
       /\ chat_mappings' =
            IF f.existing # 0
            THEN MappingRebound(chat_mappings, f.chat, nextChannelId, f.name, f.kind)
            ELSE IF throws THEN chat_mappings
            ELSE createChatMapping(chat_mappings, f.chat, nextChannelId, f.name,
                                   f.kind)
       /\ forwards' = IF throws THEN RemoveAt(forwards, i)
                      ELSE [forwards EXCEPT ![i].stage = "post",
                                            ![i].channel = nextChannelId]
       /\ dcEvents' = IF throws THEN dcEvents
                      ELSE dcEvents \cup {BotPost(nextChannelId, ConnectedText, 0)}
       /\ channelCalls' = CallEnded(f, IF throws THEN 0 ELSE nextChannelId, TRUE)
  /\ UNCHANGED <<now, is_paused, sendingLocks, ledgerVars, calls, unlockTimers,
                 drainTimers, wire, mediaJobs, nextMsgId, nSends, nPurges,
                 nDiscord, deferred, arrivals, processed, sendLog, incLog, doomed,
                 epoch, tempFiles, sendCommands>>

\* The types of the messages a message may quote (quotedMsg.type); a
\* forward keeps the type until processQuotedMediaForThumbnail has ended.
QuotedTypes == {"chat", "image"}

\* hasMediaContent(message), for the forwards of messages.
hasMediaContent(f) == ~f.notice /\ ~IsText(f.type) /\ f.type # "reaction"

\* The post in the channel (embed, notice or reaction line); it fails when
\* the channel is gone.
ForwardPost ==
  /\ \E i \in DOMAIN forwards :
       LET f == forwards[i] IN
       /\ f.stage = "post"
       /\ f.quoted \notin QuotedTypes
       /\ ~hasMediaContent(f)
       /\ forwards' = RemoveAt(forwards, i)
       /\ dcEvents' =
            IF f.channel \in channels
            THEN dcEvents \cup {BotPost(f.channel, NoText, 0)}
            ELSE dcEvents
  /\ UNCHANGED <<now, is_paused, chat_mappings, channels, nextChannelId,
                 sendingLocks, ledgerVars, calls, unlockTimers, drainTimers,
                 wire, mediaJobs, nextMsgId, nSends, nPurges, nDiscord,
                 deferred, arrivals, processed, sendLog, incLog, doomed, epoch,
                 channelCalls, tempFiles, sendCommands>>

(***************************************************************************)
(* forwardMediaMessage (lib/whatsapp-manager.js) with                      *)
(* createDiscordAttachment (lib/media-manager.js) and sendMediaToChannel   *)
(* (lib/discord-manager.js).  Sizes are in bytes.                          *)
(***************************************************************************)
maxSizeMB == 8

BytesPerMB == 1048576

\* The sizes of the files processWhatsAppMedia writes: 8 MB, one byte more,
\* and 20 MB.
FileSizes == {8388608, 8388609, 20971520}

\* The first code units of "File too large: ..." and of the embed
\* "Failed to process media attachment".
TooLargeText == <<70, 105, 108, 101>>
FailedText == <<10060, 70>>

\* createDiscordAttachment(processedMedia) for a file of the temp
\* directory: an error value for a file over the ceiling, the attachment
\* otherwise.
\* (createDiscordAttachment_mut: the size check throws inside the try
\* block, whose catch returns null)
createDiscordAttachment_mut(size) ==
  IF size > maxSizeMB * BytesPerMB THEN "null" ELSE "attachment"
createDiscordAttachment(size) ==
  IF size > maxSizeMB * BytesPerMB THEN "error" ELSE "attachment"

\* What forwardMediaMessage posts for the result of createDiscordAttachment
\* in a channel that exists: the red embed, the error embed of
\* sendMediaToChannel, or the embed with the file.
MediaPost(channelId, mediaAttachment) ==
  IF mediaAttachment = "null" THEN BotPost(channelId, FailedText, 0)
  ELSE IF mediaAttachment = "error" THEN BotPost(channelId, TooLargeText, 0)
  ELSE BotPost(channelId, NoText, 1)

\* processWhatsAppMedia resolves: with the file it wrote to the temp
\* directory, or with null, for which the text embed is posted.
MediaProcessed ==
  /\ \E i \in DOMAIN forwards :
       LET f == forwards[i] IN
       /\ f.stage = "post"
       /\ f.quoted \notin QuotedTypes
       /\ hasMediaContent(f)
       /\ \/ \E size \in FileSizes :
               /\ tempFiles' = tempFiles \cup {[ev |-> f.ev, size |-> size, of |-> "message"]}
               /\ forwards' = [forwards EXCEPT ![i].stage = "attach"]
               /\ UNCHANGED dcEvents
          \/ /\ forwards' = RemoveAt(forwards, i)
             /\ dcEvents' = IF f.channel \in channels
                            THEN dcEvents \cup {BotPost(f.channel, NoText, 0)}
                            ELSE dcEvents
             /\ UNCHANGED tempFiles
  /\ UNCHANGED <<now, is_paused, chat_mappings, channels, nextChannelId,
                 sendingLocks, ledgerVars, calls, unlockTimers, drainTimers,
                 wire, mediaJobs, nextMsgId, nSends, nPurges, nDiscord,
                 deferred, arrivals, processed, sendLog, incLog, doomed, epoch,
                 channelCalls, sendCommands>>

\* createDiscordAttachment and sendMediaToChannel; when the channel is gone
\* the send throws, and so does the send of the fallback embed in the catch
\* block.  The finally block removes the file.
MediaPosted ==
  /\ \E i \in DOMAIN forwards :
       LET f == forwards[i]
           file == CHOOSE t \in tempFiles : t.ev = f.ev /\ t.of = "message"
           mediaAttachment == createDiscordAttachment(file.size)
       IN
       /\ f.stage = "attach"
       /\ forwards' = RemoveAt(forwards, i)
       /\ dcEvents' = IF f.channel \in channels
                      THEN dcEvents \cup {MediaPost(f.channel, mediaAttachment)}
                      ELSE dcEvents
       /\ tempFiles' = tempFiles \ {file}
  /\ UNCHANGED <<now, is_paused, chat_mappings, channels, nextChannelId,
                 sendingLocks, ledgerVars, calls, unlockTimers, drainTimers,
                 wire, mediaJobs, nextMsgId, nSends, nPurges, nDiscord,
                 deferred, arrivals, processed, sendLog, incLog, doomed, epoch,
                 channelCalls, sendCommands>>

\* The first code units of the content of the preview message of
\* uploadImageForThumbnail.
PreviewText == <<55357, 56828>>

\* processQuotedMediaForThumbnail(quotedMsg, channelId), called with the
\* channel before the message itself is posted.  For a quoted media message
\* processWhatsAppMedia writes the file to the temp directory, or resolves
\* with null; for an image that fits under the ceiling
\* uploadImageForThumbnail posts the preview in the channel.  The finally
\* block removes the file at tempFilePath, which only the Base64 branch
\* sets.  A quoted text has no media.
QuotedMediaProcessed ==
  /\ \E i \in DOMAIN forwards :
       LET f == forwards[i] IN
       /\ f.stage = "post"
       /\ f.quoted \in QuotedTypes
       /\ forwards' = [forwards EXCEPT ![i].quoted = "done"]
       /\ IF f.quoted = "image"
          THEN \/ \E size \in FileSizes :
                    /\ tempFiles' = tempFiles \cup
                                      {[ev |-> f.ev, size |-> size, of |-> "quoted"]}
                    /\ dcEvents' =
                         IF /\ createDiscordAttachment(size) = "attachment"
                            /\ f.channel \in channels
                         THEN dcEvents \cup {BotPost(f.channel, PreviewText, 1)}
                         ELSE dcEvents
               \/ UNCHANGED <<tempFiles, dcEvents>>
          ELSE UNCHANGED <<tempFiles, dcEvents>>
  /\ UNCHANGED <<now, is_paused, chat_mappings, channels, nextChannelId,
                 sendingLocks, ledgerVars, calls, unlockTimers, drainTimers,
                 wire, mediaJobs, nextMsgId, nSends, nPurges, nDiscord,
                 deferred, arrivals, processed, sendLog, incLog, doomed, epoch,
                 channelCalls, sendCommands>>

\* handleStatsCommand, the statistics made: sendMessage(chatId, stats).
StatsReply ==
  /\ \E i \in DOMAIN forwards :
       /\ forwards[i].stage = "stats"
       /\ LET st == ReplySent([Cur EXCEPT !.fwd = RemoveAt(forwards, i)],
                              forwards[i].chat, StatsText)
          IN  /\ forwards' = st.fwd
              /\ sendingLocks' = st.locks
              /\ calls' = st.calls
              /\ nSends' = st.nSends
              /\ sendLog' = st.sendLog
  /\ UNCHANGED <<now, is_paused, chat_mappings, channels, nextChannelId,
                 ledgerVars, unlockTimers, drainTimers, wire, mediaJobs,
                 dcEvents, nextMsgId, nPurges, nDiscord, deferred, arrivals,
                 processed, incLog, doomed, epoch, channelCalls, tempFiles,
                 sendCommands>>

(***************************************************************************)
(* The commands of the stats channel that pause and resume the bridge, and *)
(* the commands of a chat channel that mute and unmute its chat            *)
(* (lib/discord-manager.js).                                               *)
(***************************************************************************)
setPauseState(isPaused) ==
  /\ is_paused' = isPaused
  /\ UNCHANGED <<now, chat_mappings, channels, nextChannelId, sendingLocks,
                 ledgerVars, calls, unlockTimers, drainTimers, wire, forwards,
                 mediaJobs, dcEvents, nextMsgId, nSends, nPurges, nDiscord,
                 deferred, arrivals, processed, sendLog, incLog, doomed, epoch,
                 channelCalls, tempFiles, sendCommands>>

handlePauseCommand == ~is_paused /\ setPauseState(TRUE)

handleStartCommand == is_paused /\ setPauseState(FALSE)

\* UPDATE chat_mappings SET is_muted = ? WHERE wa_chat_id = ?, for the chat
\* of the channel the command was posted in.
setChatMuteState(channelIds, isMuted) ==
  /\ \E channelId \in channelIds :
       LET waChatId == getWaChatIdFromChannel(channelId) IN
       /\ waChatId # "none"
       /\ chat_mappings[waChatId].is_muted # isMuted
       /\ chat_mappings' = [chat_mappings EXCEPT ![waChatId].is_muted = isMuted]
  /\ UNCHANGED <<now, is_paused, channels, nextChannelId, sendingLocks,
                 ledgerVars, calls, unlockTimers, drainTimers, wire, forwards,
                 mediaJobs, dcEvents, nextMsgId, nSends, nPurges, nDiscord,
                 deferred, arrivals, processed, sendLog, incLog, doomed, epoch,
                 channelCalls, tempFiles, sendCommands>>

handleMuteCommand == setChatMuteState(channels, TRUE)

handleUnmuteCommand == setChatMuteState(channels, FALSE)

(***************************************************************************)
(* handlePurgeCommand, confirmed: purgeAllData and the deletion of the     *)
(* channels it returns.  The timers that are pending stay set.             *)
(***************************************************************************)
PurgedChannels == {chat_mappings[c].dc_channel_id : c \in DOMAIN chat_mappings}

EmptyMap == [x \in {} |-> 0]

\* UPDATE bridge_state SET is_paused = FALSE
\* (PurgedPauseState_mut: purgeAllData without this statement)
PurgedPauseState_mut(isPaused) == isPaused
PurgedPauseState(isPaused) == FALSE

\* purgeAllData, which returns the channel ids of the mappings it deleted.
PurgeCommand(maxPurges) ==
  /\ nPurges < maxPurges
  /\ nPurges' = nPurges + 1
  /\ chat_mappings' = EmptyMap
  /\ discord_sent_messages' = << >>
  /\ discord_sent_message_ids' = {}
  /\ discord_sent_file_hashes' = << >>
  /\ pending_media_counts' = EmptyMap
  /\ is_paused' = PurgedPauseState(is_paused)
  /\ pendingMessageIds' = {}
  /\ sendingLocks' = EmptyMap
  /\ pendingMediaCounts' = [c \in Chats |-> 0]
  /\ doomed' = doomed \cup PurgedChannels
  /\ UNCHANGED <<now, channels, nextChannelId, idTimers, mediaTimers, calls,
                 unlockTimers, drainTimers, wire, forwards, mediaJobs,
                 dcEvents, nextMsgId, nSends, nDiscord, deferred, arrivals,
                 processed, sendLog, incLog, epoch, channelCalls, tempFiles,
                 sendCommands>>

\* One round of the loop over the returned ids: the channel is fetched and
\* deleted.
ChannelDeleted ==
  /\ \E channelId \in doomed :
       /\ doomed' = doomed \ {channelId}
       /\ channels' = channels \ {channelId}
       /\ dcEvents' = {m \in dcEvents : m.channel # channelId}
  /\ UNCHANGED <<now, is_paused, chat_mappings, nextChannelId, sendingLocks,
                 ledgerVars, calls, unlockTimers, drainTimers, wire, forwards,
                 mediaJobs, nextMsgId, nSends, nPurges, nDiscord, deferred,
                 arrivals, processed, sendLog, incLog, epoch, channelCalls,
                 tempFiles, sendCommands>>

\* Somebody deletes a channel on Discord; client.channels.fetch of its id
\* throws from then on.
ChannelRemoved ==
  /\ \E channelId \in channels \cap PurgedChannels :
       /\ channels' = channels \ {channelId}
       /\ dcEvents' = {m \in dcEvents : m.channel # channelId}
  /\ UNCHANGED <<now, is_paused, chat_mappings, nextChannelId, sendingLocks,
                 ledgerVars, calls, unlockTimers, drainTimers, wire, forwards,
                 mediaJobs, nextMsgId, nSends, nPurges, nDiscord, deferred,
                 arrivals, processed, sendLog, incLog, doomed, epoch,
                 channelCalls, tempFiles, sendCommands>>

(***************************************************************************)
(* The process stops and starts again: the constructor of DatabaseManager  *)
(* opens the same database file and makes new, empty caches; the timers,   *)
(* the calls under way and the events not yet handled end with the old     *)
(* process.  What WhatsApp has not delivered yet it delivers to the new    *)
(* one.                                                                    *)
(***************************************************************************)
Restart(maxRestarts) ==
  /\ epoch < maxRestarts
  /\ epoch' = epoch + 1
  /\ pendingMessageIds' = {}
  /\ sendingLocks' = EmptyMap
  /\ pendingMediaCounts' = [c \in Chats |-> 0]
  /\ idTimers' = {}
  /\ mediaTimers' = << >>
  /\ calls' = {}
  /\ unlockTimers' = << >>
  /\ drainTimers' = << >>
  /\ forwards' = << >>
  /\ mediaJobs' = {}
  /\ dcEvents' = {}
  /\ doomed' = {}
  /\ UNCHANGED <<now, is_paused, chat_mappings, channels, nextChannelId,
                 discord_sent_message_ids, discord_sent_messages,
                 discord_sent_file_hashes, pending_media_counts, wire,
                 nextMsgId, nSends, nPurges, nDiscord, deferred, arrivals,
                 processed, sendLog, incLog, channelCalls, tempFiles>>
  /\ sendCommands' = [k \in DOMAIN sendCommands |->
                        IF sendCommands[k].state = "dialog"
                        THEN [sendCommands[k] EXCEPT !.state = "lost"]
                        ELSE sendCommands[k]]

(***************************************************************************)
(* The bridge after start-up on a store that holds a channel for every     *)
(* chat.                                                                   *)
(***************************************************************************)
Init ==
  /\ now = 0
  /\ is_paused = FALSE
  /\ chat_mappings = [c \in Chats |->
                        NewRow(IF c = "c1" THEN 1 ELSE 2, <<c, "peer">>,
                               getChatType(c))]
  /\ channels = {1, 2}
  /\ nextChannelId = 3
  /\ sendingLocks = EmptyMap
  /\ pendingMessageIds = {}
  /\ idTimers = {}
  /\ discord_sent_message_ids = {}
  /\ discord_sent_messages = << >>
  /\ discord_sent_file_hashes = << >>
  /\ pendingMediaCounts = [c \in Chats |-> 0]
  /\ mediaTimers = << >>
  /\ pending_media_counts = EmptyMap
  /\ calls = {}
  /\ unlockTimers = << >>
  /\ drainTimers = << >>
  /\ wire = {}
  /\ forwards = << >>
  /\ mediaJobs = {}
  /\ dcEvents = {}
  /\ nextMsgId = 1
  /\ nSends = 0
  /\ nPurges = 0
  /\ nDiscord = 0
  /\ deferred = {}
  /\ arrivals = << >>
  /\ processed = << >>
  /\ sendLog = << >>
  /\ incLog = << >>
  /\ doomed = {}
  /\ epoch = 0
  /\ channelCalls = << >>
  /\ tempFiles = {}
  /\ sendCommands = << >>

(***************************************************************************)
(* The bridge with every operation of the model.                           *)
(***************************************************************************)
Inbound == InboundMessage(MaxInbound, Chats, BOOLEAN, EventTypes, Texts)

DiscordMessage == MessageCreate(UserMessages, MaxDiscordMsgs, MaxSends)

AttachmentSent == AttachmentSend(MaxSends, AttachmentKinds)

AdminSend == AdminSendCommand(Chats, Texts, MaxDiscordMsgs, MaxSends)

Purge == PurgeCommand(MaxPurges)

Next ==
  \/ Inbound
  \/ InboundEcho
  \/ InboundEchoStoreThrows
  \/ DiscordMessage
  \/ AttachmentSent
  \/ AttachmentSkip
  \/ AdminSend
  \/ GifDownloaded(MaxSends)
  \/ GifFallback(MaxSends)
  \/ handleSendCommand(MaxDiscordMsgs, MaxSends)
  \/ DialogReaction(MaxSends)
  \/ DialogTimeout
  \/ PlatformAccept
  \/ PlatformReturn
  \/ PlatformFail
  \/ UnlockTimerFire
  \/ DrainTimerFire
  \/ ChannelLookup
  \/ ChannelFetched
  \/ ChannelCreated
  \/ ForwardPost
  \/ MediaProcessed
  \/ MediaPosted
  \/ InboundQuote(MaxInbound, Chats, BOOLEAN, EventTypes, {TextHi}, QuotedTypes)
  \/ QuotedMediaProcessed
  \/ StatsReply
  \/ handlePauseCommand
  \/ handleStartCommand
  \/ handleMuteCommand
  \/ handleUnmuteCommand
  \/ InboundReaction(MaxInbound, Chats, BOOLEAN)
  \/ IdTimerFire
  \/ MediaTimerFire
  \/ Tick
  \/ PeriodicCleanup
  \/ Purge
  \/ ChannelDeleted
  \/ ChannelRemoved
  \/ Restart(MaxRestarts)

Spec == Init /\ [][Next]_vars

(***************************************************************************)
(* The send lock of one chat: text sends from Discord, messages of a third *)
(* party, the unlock and drain timers.                                     *)
(***************************************************************************)
LockInbound == InboundMessage(MaxInbound, {"c1"}, {FALSE}, {"chat"}, {TextHi})

TextMessages ==
  {m \in UserMessages : m.channel = 1 /\ m.content = TextHi /\ m.attachments = 0}

LockDiscordText == MessageCreate(TextMessages, MaxSends, MaxSends)

NextLock ==
  \/ LockInbound
  \/ InboundEcho
  \/ LockDiscordText
  \/ PlatformAccept
  \/ PlatformReturn
  \/ PlatformFail
  \/ UnlockTimerFire
  \/ DrainTimerFire

SpecLock == Init /\ [][NextLock]_vars

\* The same with the purge command.
NextPurge ==
  \/ NextLock
  \/ Purge
  \/ ChannelDeleted

SpecPurge == Init /\ [][NextPurge]_vars

(***************************************************************************)
(* Properties of the send lock.                                            *)
(***************************************************************************)
\* The sends to a chat that have locked it and whose unlock has not run.
SendsOpen(chatId) ==
  {k.sid : k \in {x \in calls : x.chat = chatId}}
    \cup {unlockTimers[i].sid : i \in {x \in DOMAIN unlockTimers : unlockTimers[x].chat = chatId}}

ArrivalIndex(id) == CHOOSE i \in DOMAIN arrivals : arrivals[i].id = id

DrainIds == UNION {{drainTimers[i][k].id : k \in DOMAIN drainTimers[i]} : i \in DOMAIN drainTimers}

PendingIds == QueuedIds(sendingLocks) \cup DrainIds

ProcessedIds == {processed[i].ev.id : i \in DOMAIN processed}

\* C2: a chat stays locked from the lock of each send to it until the unlock
\* of that same send has run, so that no inbound event of the chat is
\* classified while a send to it is open.
C2_LockedUntilOwnUnlock ==
  \A c \in Chats : SendsOpen(c) # {} => isChatLockedForSending(sendingLocks, c)

\* C4: at most one send to a chat is between its lock and its unlock.
C4_OneSendInFlight ==
  \A c \in Chats : Cardinality(SendsOpen(c)) <= 1

\* C5: the deferred events of a chat are handled in the order in which they
\* arrived, also when the chat is locked again before the drain timer fires.
C5_DeferredFifo ==
  \A i, j \in DOMAIN processed :
     (/\ i < j
      /\ processed[i].ev.chat = processed[j].ev.chat
      /\ processed[i].ev.id \in deferred
      /\ processed[j].ev.id \in deferred)
       => ArrivalIndex(processed[i].ev.id) < ArrivalIndex(processed[j].ev.id)

\* C6: the events of a chat are processed in arrival order, deferred or not.
C6_ArrivalOrder ==
  \A i, j \in DOMAIN processed :
     (i < j /\ processed[i].ev.chat = processed[j].ev.chat)
       => ArrivalIndex(processed[i].ev.id) < ArrivalIndex(processed[j].ev.id)

\* C7: an event that waits in a queue or in a drain timer stays there until
\* it is passed to its handler; no operation removes it unhandled.
C7_QueuedNeverDropped ==
  [][\A id \in PendingIds : id \in PendingIds' \/ id \in ProcessedIds']_vars

(***************************************************************************)
(* Echo suppression of text sends: a text from a chat channel or from the  *)
(* send command, its echo, messages the account owner types on WhatsApp,   *)
(* and the passing of time.                                                *)
(***************************************************************************)
EchoInbound == InboundMessage(MaxInbound, {"c1"}, {TRUE}, {"chat"}, {TextHi})

EchoDiscordText == MessageCreate(TextMessages, MaxEchoSends, MaxEchoSends)

EchoAdminSend == AdminSendCommand({"c1"}, {TextHi}, MaxEchoSends, MaxEchoSends)

NextEcho ==
  \/ EchoInbound
  \/ InboundEcho
  \/ EchoDiscordText
  \/ EchoAdminSend
  \/ PlatformAccept
  \/ PlatformReturn
  \/ PlatformFail
  \/ UnlockTimerFire
  \/ DrainTimerFire
  \/ IdTimerFire
  \/ Tick
  \/ PeriodicCleanup

SpecEcho == Init /\ [][NextEcho]_vars

\* The sends whose echo an event is (at most one).
SendsOfEcho(m) == {s \in DOMAIN sendLog : sendLog[s].msgId = m.id}

IsEcho(m) == SendsOfEcho(m) # {}

Suppressed(p) == p.outcome \in {"echo_id", "echo_counter", "echo_content"}

\* The echo of send s was classified before position j of the log.
EchoDoneBefore(s, j) ==
  \E i \in DOMAIN processed : i < j /\ processed[i].ev.id = sendLog[s].msgId

\* C1: the echo of a text sent from a chat channel, classified within the
\* TTL and before any message of the same text typed on WhatsApp, is not
\* forwarded; and once the echo of every such send of that text to the chat
\* was suppressed, a message with the same text that the account owner types
\* on WhatsApp is forwarded.
C1_EchoOnceThenForward ==
  \A j \in DOMAIN processed :
     LET p == processed[j]
         same == {s \in DOMAIN sendLog :
                    /\ sendLog[s].chat = p.ev.chat
                    /\ sendLog[s].body = p.ev.body}
         typedBefore == {i \in 1..(j - 1) :
                           /\ ~IsEcho(processed[i].ev)
                           /\ processed[i].ev.chat = p.ev.chat
                           /\ processed[i].ev.body = p.ev.body}
     IN  /\ \A s \in SendsOfEcho(p.ev) :
              (/\ sendLog[s].origin = "discord"
               /\ p.at < sendLog[s].at + ContentTtlMinutes
               /\ typedBefore = {})
                => Suppressed(p)
         /\ (/\ p.ev.isMe
             /\ IsText(p.ev.type)
             /\ ~IsEcho(p.ev)
             /\ same # {}
             /\ \A s \in same : sendLog[s].origin = "discord" /\ EchoDoneBefore(s, j))
              => p.outcome = "forwarded"

\* C9: the echo of a text sent with the send command, classified within the
\* TTL, is not forwarded, whether the platform send returned a message id
\* or a boolean.
C9_AdminEchoSuppressed ==
  \A j \in DOMAIN processed :
     \A s \in SendsOfEcho(processed[j].ev) :
        (/\ sendLog[s].origin = "admin"
         /\ sendLog[s].shape \in {"id", "true"}
         /\ processed[j].at < sendLog[s].at + ContentTtlMinutes)
          => Suppressed(processed[j])

(***************************************************************************)
(* The pending-media counter: one Discord message with attachments and no  *)
(* caption, its sends and their echoes, media the account owner sends on   *)
(* WhatsApp, and the passing of time.                                      *)
(***************************************************************************)
MediaInbound == InboundMessage(MaxMediaInbound, {"c1"}, {TRUE}, {"image"}, {NoText})

MediaMessages ==
  {m \in UserMessages : m.channel = 1 /\ m.content = NoText /\ m.attachments = MaxAttachments}

MediaDiscord == MessageCreate(MediaMessages, MaxMediaMsgs, MaxMediaSends)

MediaAttachmentSent == AttachmentSend(MaxMediaSends, AttachmentKinds)

NextMedia ==
  \/ MediaInbound
  \/ InboundEcho
  \/ MediaDiscord
  \/ MediaAttachmentSent
  \/ AttachmentSkip
  \/ PlatformAccept
  \/ PlatformReturn
  \/ PlatformFail
  \/ UnlockTimerFire
  \/ DrainTimerFire
  \/ MediaTimerFire
  \/ Tick
  \/ PeriodicCleanup

SpecMedia == Init /\ [][NextMedia]_vars

\* The events of a chat that shouldIgnoreOwnMedia suppressed within the TTL
\* of increment k.
CounterSuppressed(k) ==
  {j \in DOMAIN processed :
     /\ processed[j].ev.chat = incLog[k].chat
     /\ processed[j].outcome = "echo_counter"
     /\ processed[j].at < incLog[k].at + MediaTtlMinutes}

\* C3: after one incrementPendingMediaCount(C, n), no more than n
\* self-authored media events of C are suppressed by shouldIgnoreOwnMedia;
\* the next one is forwarded.
C3_CounterExhausted ==
  \A k \in DOMAIN incLog :
     ({i \in DOMAIN incLog : incLog[i].chat = incLog[k].chat} = {k})
       => Cardinality(CounterSuppressed(k)) <= incLog[k].count

(***************************************************************************)
(* Both directions together: text and media messages and reactions of a    *)
(* third party are forwarded to Discord, where the messageCreate handler   *)
(* sees the posts of the bridge; the purge command makes the next forward  *)
(* create a channel and post its introduction.                             *)
(***************************************************************************)
LoopInbound == InboundMessage(MaxLoopInbound, {"c1"}, {FALSE}, EventTypes, {TextHi})

LoopReaction == InboundReaction(MaxLoopInbound, {"c1"}, {FALSE})

\* The messageCreate events of the posts the bridge made.
LoopDiscord == MessageCreate({}, 0, MaxLoopSends)

NextLoop ==
  \/ LoopInbound
  \/ LoopReaction
  \/ ChannelFetched
  \/ ChannelCreated
  \/ ForwardPost
  \/ MediaProcessed
  \/ MediaPosted
  \/ LoopDiscord
  \/ Purge
  \/ ChannelDeleted

SpecLoop == Init /\ [][NextLoop]_vars

\* C10: no send to WhatsApp and no attachment loop stems from a message
\* that a bot account posted in a Discord channel; the posts of the bridge
\* itself (embeds, forwarded media, channel introductions, notices) are
\* such messages.
C10_BotNeverRelayed ==
  /\ \A i \in DOMAIN sendLog : ~sendLog[i].fromBot
  /\ \A job \in mediaJobs : ~job.fromBot

\* A media message of a third party was forwarded, the bridge's post
\* reached the messageCreate handler, and nothing was left to handle.
C10_ForwardHandled ==
  /\ \E j \in DOMAIN processed :
        processed[j].outcome = "forwarded" /\ processed[j].ev.type = "image"
  /\ Len(processed) = Len(arrivals)
  /\ forwards = << >>
  /\ dcEvents = {}
  /\ nPurges = 0

(***************************************************************************)
(* The send wrappers under fair scheduling: a platform call that was       *)
(* started resolves or rejects, and a timer that was set fires.            *)
(***************************************************************************)
LiveMessages ==
  {m \in UserMessages :
     /\ m.channel = 1
     /\ \/ m.content = TextHi /\ m.attachments = 0
        \/ m.content \in {NoText, StickerText} /\ m.attachments = 1}

LiveDiscord == MessageCreate(LiveMessages, MaxLiveMsgs, MaxLiveSends)

LiveAttachmentSent == AttachmentSend(MaxLiveSends, {"document"})

PlatformStep == PlatformAccept \/ PlatformReturn \/ PlatformFail

NextLive ==
  \/ LiveDiscord
  \/ LiveAttachmentSent
  \/ AttachmentSkip
  \/ PlatformAccept
  \/ PlatformReturn
  \/ PlatformFail
  \/ UnlockTimerFire

SpecLive ==
  /\ Init
  /\ [][NextLive]_vars
  /\ WF_vars(PlatformStep)
  /\ WF_vars(UnlockTimerFire)

\* C8: every send that locked a chat is followed by the run of its
\* unlockChatAfterSending, whatever the platform call returned or threw:
\* no send stays between its lock and its unlock forever, and no chat
\* stays locked forever.
C8_UnlockFollowsLock ==
  /\ \A sid \in 1..MaxLiveSends :
        []<>(\A c \in Chats : sid \notin SendsOpen(c))
  /\ \A c \in Chats : []<>~isChatLockedForSending(sendingLocks, c)

\* Two sends to a chat overlapped, the platform call of a sticker send
\* threw and the other call returned, and the unlock of both has run.
C8_UnlockedAfterThrow ==
  /\ unlockTimers = << >>
  /\ calls = {}
  /\ \A c \in Chats : ~isChatLockedForSending(sendingLocks, c)
  /\ \E i, j \in DOMAIN sendLog :
        /\ sendLog[i].kind = "sticker" /\ sendLog[i].shape = "null"
        /\ sendLog[j].kind \in {"text", "document"}
        /\ sendLog[j].shape \in {"id", "true"}
        /\ sendLog[i].chat = sendLog[j].chat

(***************************************************************************)
(* Expiry of fingerprints.                                                 *)
(***************************************************************************)
\* A by-id fingerprint of the message was recorded and its expiry time lies
\* ahead: the table row while it is kept, or else the removal timer of the
\* memory entry, which is set to the same time to live.
IdLive(messageId) ==
  \/ \E r \in discord_sent_message_ids :
        r.wa_message_id = messageId /\ r.expires_at > now
  \/ \E t \in idTimers : t.id = messageId /\ t.fireAt > now

ContentLive(waChatId, content) ==
  \E i \in DOMAIN discord_sent_messages :
     /\ discord_sent_messages[i].wa_chat_id = waChatId
     /\ discord_sent_messages[i].message_hash = createMessageHash(content)
     /\ discord_sent_messages[i].expires_at > now

\* C11: a self-authored event is suppressed by its id or by its content
\* only when a fingerprint whose expiry lies ahead matches it, and it is
\* forwarded only when none does, whether or not the sweep or the removal
\* timer of the memory entry has run.
C11_ExpiryRespected ==
  [][(Len(processed') = Len(processed) + 1) =>
       LET p == processed'[Len(processed')] IN
         /\ p.outcome = "echo_id" => IdLive(p.ev.id)
         /\ p.outcome = "echo_content" => ContentLive(p.ev.chat, p.ev.body)
         /\ (p.outcome = "forwarded" /\ p.ev.isMe)
              => ~IdLive(p.ev.id) /\ ~ContentLive(p.ev.chat, p.ev.body)]_vars

(***************************************************************************)
(* Echo suppression across a restart: a text from a chat channel, its      *)
(* echo, a message the account owner types, the passing of time and one    *)
(* restart of the process.                                                 *)
(***************************************************************************)
RestartInbound == InboundMessage(MaxRestartInbound, {"c1"}, {TRUE}, {"chat"}, {TextHi})

Restarted == Restart(MaxRestarts)

NextRestart ==
  \/ RestartInbound
  \/ InboundEcho
  \/ EchoDiscordText
  \/ PlatformAccept
  \/ PlatformReturn
  \/ PlatformFail
  \/ UnlockTimerFire
  \/ DrainTimerFire
  \/ IdTimerFire
  \/ Tick
  \/ PeriodicCleanup
  \/ Restarted

SpecRestart == Init /\ [][NextRestart]_vars

\* The table row of a by-id fingerprint, its expiry time ahead.
IdRowLive(messageId) ==
  \E r \in discord_sent_message_ids :
     r.wa_message_id = messageId /\ r.expires_at > now

\* The echo of send s was suppressed by a process started after the send,
\* before position j of the log.
EchoSuppressedAfterRestart(s, j) ==
  \E i \in DOMAIN processed :
     /\ i < j
     /\ processed[i].ev.id = sendLog[s].msgId
     /\ processed[i].epoch > sendLog[s].epoch
     /\ Suppressed(processed[i])

\* C12: the echo of a send made before a restart, arriving after it while
\* a durable fingerprint of the send (id row or content row) has its expiry
\* ahead, is suppressed; and once the echoes of all sends of a text to a
\* chat were suppressed after the restart, a message with the same text
\* that the account owner types is forwarded.
C12_SuppressedOnceAfterRestart ==
  [][(Len(processed') = Len(processed) + 1) =>
       LET j == Len(processed')
           p == processed'[j]
           same == {s \in DOMAIN sendLog :
                      /\ sendLog[s].chat = p.ev.chat
                      /\ sendLog[s].body = p.ev.body}
       IN  /\ \A s \in SendsOfEcho(p.ev) :
                (/\ sendLog[s].epoch < epoch
                 /\ IdRowLive(p.ev.id) \/ ContentLive(p.ev.chat, p.ev.body))
                  => Suppressed(p)
           /\ (/\ p.ev.isMe
               /\ IsText(p.ev.type)
               /\ ~IsEcho(p.ev)
               /\ same # {}
               /\ \A s \in same : EchoSuppressedAfterRestart(s, j))
                => p.outcome = "forwarded"]_vars

(***************************************************************************)
(* The global pause: the pause and start commands, messages and reactions  *)
(* of a third party in the stats chat (texts and command texts), the       *)
(* replies to the commands and the forwards.                               *)
(***************************************************************************)
PauseInbound ==
  InboundMessage(MaxPauseInbound, {StatsChatId}, {FALSE}, {"chat"},
                 {TextHi, CmdPause, CmdStats, CmdHelp})

PauseReaction == InboundReaction(MaxPauseInbound, {StatsChatId}, {FALSE})

NextPause ==
  \/ PauseInbound
  \/ PauseReaction
  \/ InboundEcho
  \/ handlePauseCommand
  \/ handleStartCommand
  \/ StatsReply
  \/ PlatformAccept
  \/ PlatformReturn
  \/ PlatformFail
  \/ UnlockTimerFire
  \/ DrainTimerFire
  \/ ChannelFetched
  \/ ForwardPost

SpecPause == Init /\ [][NextPause]_vars

\* C13: an inbound message or reaction that is handled while the bridge is
\* paused is not forwarded, whatever its sender and body: it is dropped, or
\* it is a command that is answered.
C13_PausedNotForwarded ==
  \A j \in DOMAIN processed :
     processed[j].paused => processed[j].outcome \in {"paused", "muted", "command"}

(***************************************************************************)
(* The global pause and the texts users post in the chat channels.         *)
(***************************************************************************)
NextPauseOut ==
  \/ handlePauseCommand
  \/ handleStartCommand
  \/ LockDiscordText
  \/ PlatformAccept
  \/ PlatformReturn
  \/ PlatformFail
  \/ UnlockTimerFire

SpecPauseOut == Init /\ [][NextPauseOut]_vars

\* C14: no send to WhatsApp that stems from a message posted in a chat
\* channel is started while the bridge is paused.
C14_PausedNotRelayed ==
  \A s \in DOMAIN sendLog :
     sendLog[s].origin = "discord" => ~sendLog[s].paused

(***************************************************************************)
(* The mute of a chat: the mute and unmute commands in the channel of c1,  *)
(* messages of third parties in both chats and reactions in c1, a text     *)
(* from the channel of c1 (whose send locks the chat and defers events)    *)
(* and the timers, up to the decision of the handlers.                     *)
(***************************************************************************)
MuteInbound == InboundMessage(MaxMuteInbound, Chats, {FALSE}, {"chat"}, {TextHi})

MuteReaction == InboundReaction(MaxMuteInbound, {"c1"}, {FALSE})

MuteDiscord == MessageCreate(TextMessages, MaxMuteSends, MaxMuteSends)

MuteChat == setChatMuteState({1}, TRUE)

UnmuteChat == setChatMuteState({1}, FALSE)

NextMute ==
  \/ MuteInbound
  \/ MuteReaction
  \/ MuteChat
  \/ UnmuteChat
  \/ MuteDiscord
  \/ PlatformAccept
  \/ PlatformReturn
  \/ PlatformFail
  \/ UnlockTimerFire
  \/ DrainTimerFire

SpecMute == Init /\ [][NextMute]_vars

CommandInbound ==
  InboundMessage(MaxMuteInbound, {StatsChatId}, {FALSE}, {"chat"}, {CmdStats, CmdHelp})

MuteStatsChat == setChatMuteState({2}, TRUE)

UnmuteStatsChat == setChatMuteState({2}, FALSE)

NextCommand ==
  \/ CommandInbound
  \/ MuteStatsChat
  \/ UnmuteStatsChat
  \/ StatsReply
  \/ PlatformAccept
  \/ PlatformReturn
  \/ PlatformFail
  \/ UnlockTimerFire
  \/ DrainTimerFire

SpecCommand == Init /\ [][NextCommand]_vars

\* C16: a stats command from the authorized chat, or a help command of a
\* third party, that is handled while its conversation is muted is
\* dispatched (and so answered).
C16_CommandsPassMute ==
  \A j \in DOMAIN processed :
     LET p == processed[j]
         body == ToLowerCase(Trim(p.ev.body))
     IN  (/\ p.muted
          /\ \/ body = CmdStats /\ FromOf(p.ev) = StatsChatId
             \/ body = CmdHelp /\ ~p.ev.isMe)
           => p.outcome = "command"

(***************************************************************************)
(* The registry of mappings: messages of a third party in c1, the awaits   *)
(* of getOrCreateChannel, the post, the purge command and its deletion     *)
(* loop.                                                                   *)
(***************************************************************************)
RegistryInbound ==
  InboundMessage(MaxRegistryInbound, {"c1"}, {FALSE}, {"chat"}, {TextHi})

NextRegistry ==
  \/ RegistryInbound
  \/ ChannelFetched
  \/ ChannelCreated
  \/ ForwardPost
  \/ Purge
  \/ ChannelDeleted

SpecRegistry == Init /\ [][NextRegistry]_vars

\* The getOrCreateChannel calls that end in this step.
CallsEnding == {k \in DOMAIN channelCalls : ~channelCalls[k].done /\ channelCalls'[k].done}

\* C17: purgeAllData returns the channel id of each of the n mappings and
\* leaves the store without a mapping; and when the getOrCreateChannel call
\* of a message that arrived after a purge and found no mapping ends, the
\* chat has a mapping bound to an existing channel created after the
\* message arrived - the channel the call returns, when it returns one.
C17_PurgeThenFreshMapping ==
  [][/\ (nPurges' = nPurges + 1) =>
          /\ chat_mappings' = EmptyMap
          /\ doomed' \ doomed = {chat_mappings[c].dc_channel_id : c \in DOMAIN chat_mappings}
          /\ Cardinality(doomed' \ doomed) = Cardinality(DOMAIN chat_mappings)
     /\ \A k \in CallsEnding :
           LET call == channelCalls'[k] IN
           (call.purges > 0 /\ call.existing = 0) =>
              /\ call.chat \in DOMAIN chat_mappings'
              /\ chat_mappings'[call.chat].dc_channel_id \in channels'
              /\ chat_mappings'[call.chat].dc_channel_id >= call.fresh
              /\ call.result # 0 =>
                    /\ call.created
                    /\ call.result \notin channels
                    /\ chat_mappings'[call.chat].dc_channel_id = call.result]_vars

\* A purge emptied a store of two mappings, and a message that arrived
\* afterwards got a channel created and bound to its chat.
C17_FreshAfterPurge ==
  /\ nPurges > 0
  /\ \E k \in DOMAIN channelCalls :
        /\ channelCalls[k].purges > 0
        /\ channelCalls[k].existing = 0
        /\ channelCalls[k].created
        /\ channelCalls[k].result # 0
        /\ channelCalls[k].chat \in DOMAIN chat_mappings
        /\ chat_mappings[channelCalls[k].chat].dc_channel_id = channelCalls[k].result

\* C18: a getOrCreateChannel call that read the registry before a purge
\* and ends after it does not return a channel, found or created, that
\* the store does not map its chat to.
C18_PurgeAtomic ==
  [][\A k \in CallsEnding :
        LET call == channelCalls'[k] IN
        (call.purges < nPurges /\ call.result # 0) =>
           /\ call.chat \in DOMAIN chat_mappings'
           /\ chat_mappings'[call.chat].dc_channel_id = call.result]_vars

\* The getOrCreateChannel calls for the chat of call k.
CallsOfChat(k) ==
  {i \in DOMAIN channelCalls : channelCalls[i].chat = channelCalls[k].chat}

\* Call k2 is the second call for a chat, made when the first, k1, had
\* returned a channel for the chat it found no mapping of, and no purge ran
\* from the start of k1 to the end of k2.
InSequence(k1, k2) ==
  /\ k1 < k2
  /\ CallsOfChat(k1) \cap (1..k2) = {k1, k2}
  /\ channelCalls[k1].existing = 0
  /\ channelCalls[k1].result # 0
  /\ k1 \in channelCalls[k2].after
  /\ channelCalls[k2].done
  /\ channelCalls[k2].endPurges = channelCalls[k1].purges

\* C19: of two getOrCreateChannel calls in sequence for a chat that had no
\* mapping, with no purge in between, the first creates a channel and the
\* second creates none and returns the channel of the first.
C19_SecondCallReturnsSame ==
  \A k1, k2 \in DOMAIN channelCalls :
     InSequence(k1, k2) =>
        /\ channelCalls[k1].created
        /\ ~channelCalls[k2].created
        /\ channelCalls[k2].result = channelCalls[k1].result

\* Two calls in sequence for a chat without a mapping have ended.
C19_TwoCallsEnded ==
  \E k1, k2 \in DOMAIN channelCalls :
     InSequence(k1, k2) /\ channelCalls[k2].result # 0

\* C20: when no forward of a chat is under way, the message counter of its
\* mapping is the number of getOrCreateChannel calls that returned a
\* channel for an event of the chat since the last purge.
C20_CounterCountsForwards ==
  \A c \in DOMAIN chat_mappings :
     (\A i \in DOMAIN forwards : forwards[i].chat # c) =>
        chat_mappings[c].message_count =
          Cardinality({k \in DOMAIN channelCalls :
                         /\ channelCalls[k].chat = c
                         /\ channelCalls[k].purges = nPurges
                         /\ channelCalls[k].result # 0})


(***************************************************************************)
(* The registry under everything that writes it: forwards of c1, the send  *)
(* command of the administrator to c2 and its notice, channels deleted on  *)
(* Discord and repaired by the next forward, and purges.                   *)
(***************************************************************************)
MappingInbound ==
  InboundMessage(MaxMappingInbound, {"c1"}, {FALSE}, {"chat"}, {TextHi})

MappingAdminSend == AdminSendCommand({"c2"}, {TextHi}, MaxMappingSends, MaxMappingSends)

NextMapping ==
  \/ MappingInbound
  \/ MappingAdminSend
  \/ PlatformAccept
  \/ PlatformReturn
  \/ PlatformFail
  \/ UnlockTimerFire
  \/ ChannelLookup
  \/ ChannelFetched
  \/ ChannelCreated
  \/ ForwardPost
  \/ ChannelRemoved
  \/ Purge
  \/ ChannelDeleted

SpecMapping == Init /\ [][NextMapping]_vars

\* C21: the store holds one row for a chat id (it is keyed by wa_chat_id,
\* whose second INSERT throws), and no two rows are bound to the same
\* channel id.
C21_MappingsUnique ==
  /\ DOMAIN chat_mappings \subseteq Chats
  /\ \A c1, c2 \in DOMAIN chat_mappings :
        chat_mappings[c1].dc_channel_id = chat_mappings[c2].dc_channel_id => c1 = c2

\* A getOrCreateChannel call found the channel of its mapping gone, created
\* a channel and bound the mapping to it, while another chat had a mapping.
C21_Repaired ==
  /\ Cardinality(DOMAIN chat_mappings) = 2
  /\ \E k \in DOMAIN channelCalls :
        /\ channelCalls[k].existing # 0
        /\ channelCalls[k].created
        /\ channelCalls[k].result # 0
        /\ chat_mappings[channelCalls[k].chat].dc_channel_id = channelCalls[k].result

(***************************************************************************)
(* The rows of the registry: messages of both parties in c1, which carry   *)
(* different names for the chat, the awaits of getOrCreateChannel,         *)
(* channels deleted on Discord, and purges.                                *)
(***************************************************************************)
NameInbound ==
  InboundMessage(MaxRegistryInbound, {"c1"}, BOOLEAN, {"chat"}, {TextHi})

NextName ==
  \/ NameInbound
  \/ ChannelFetched
  \/ ChannelCreated
  \/ ForwardPost
  \/ ChannelRemoved
  \/ Purge
  \/ ChannelDeleted

SpecName == Init /\ [][NextName]_vars

\* The mapping of chat c is the one a getOrCreateChannel call made last.
RepairEnding(c) ==
  \E k \in CallsEnding :
     /\ channelCalls'[k].chat = c
     /\ channelCalls'[k].existing # 0
     /\ channelCalls'[k].created

\* C22: when a getOrCreateChannel call has created the mapping of chat X
\* with name n and kind k, getChatMapping(X) is a row with name n, kind k
\* and the channel the call returns, and getWaChatIdFromChannel of that
\* channel is X; and a row keeps its channel, name and kind in every step
\* that is neither a purge nor the end of a repair of its chat.
C22_MappingRoundTrip ==
  [][/\ \A k \in CallsEnding :
           LET call == channelCalls'[k] IN
           (call.existing = 0 /\ call.result # 0) =>
              /\ call.chat \in DOMAIN chat_mappings'
              /\ chat_mappings'[call.chat].chat_name = call.name
              /\ chat_mappings'[call.chat].chat_type = call.kind
              /\ chat_mappings'[call.chat].dc_channel_id = call.result
              /\ WaChatIdOf(chat_mappings', call.result) = call.chat
     /\ \A c \in DOMAIN chat_mappings :
           (nPurges' = nPurges /\ ~RepairEnding(c)) =>
              /\ c \in DOMAIN chat_mappings'
              /\ chat_mappings'[c].chat_name = chat_mappings[c].chat_name
              /\ chat_mappings'[c].chat_type = chat_mappings[c].chat_type
              /\ chat_mappings'[c].dc_channel_id = chat_mappings[c].dc_channel_id
              /\ WaChatIdOf(chat_mappings', chat_mappings[c].dc_channel_id) = c]_vars

\* After a purge a call created the mapping of a chat under the name of
\* its event, and a later call for the chat found that mapping and its
\* channel.
C22_CreatedThenFound ==
  \E k1, k2 \in DOMAIN channelCalls :
     /\ channelCalls[k1].chat = channelCalls[k2].chat
     /\ channelCalls[k1].existing = 0
     /\ channelCalls[k1].created
     /\ channelCalls[k1].result # 0
     /\ channelCalls[k2].existing = channelCalls[k1].result
     /\ channelCalls[k2].done
     /\ ~channelCalls[k2].created
     /\ chat_mappings[channelCalls[k1].chat].chat_name = channelCalls[k1].name

(***************************************************************************)
(* Media of a third party in c1 forwarded to Discord: the awaits of        *)
(* getOrCreateChannel, of processWhatsAppMedia and of the post, and        *)
(* channels deleted on Discord.                                            *)
(***************************************************************************)
AttachInbound ==
  InboundMessage(MaxAttachInbound, {"c1"}, {FALSE}, {"image"}, {NoText})

NextAttach ==
  \/ AttachInbound
  \/ ChannelFetched
  \/ ChannelCreated
  \/ MediaProcessed
  \/ MediaPosted
  \/ ChannelRemoved

SpecAttach == Init /\ [][NextAttach]_vars

\* The forwards of media whose forwardMediaMessage call ends in this step.
MediaEnding ==
  {f \in {forwards[i] : i \in DOMAIN forwards} :
     /\ f.stage = "attach"
     /\ \A j \in DOMAIN forwards' : forwards'[j].ev # f.ev}

TempFileOf(f) == CHOOSE t \in tempFiles : t.ev = f.ev /\ t.of = "message"

\* C23: when forwardMediaMessage ends for a temp file over the 8 MB
\* ceiling, the handler has ended without an exception, the post it made in
\* a channel that exists is the embed with the error reason and carries no
\* file, and the temp file is gone.
C23_OversizeReported ==
  [][\A f \in MediaEnding :
        TempFileOf(f).size > maxSizeMB * BytesPerMB =>
           /\ TempFileOf(f) \notin tempFiles'
           /\ dcEvents' \ dcEvents \subseteq {BotPost(f.channel, TooLargeText, 0)}
           /\ f.channel \in channels =>
                 BotPost(f.channel, TooLargeText, 0) \in dcEvents']_vars

\* A file over the ceiling was written, reported in the channel and removed.
C23_LargeFileReported ==
  /\ tempFiles = {}
  /\ forwards = << >>
  /\ \E m \in dcEvents : m.content = TooLargeText /\ m.attachments = 0

\* C24: a send for a Discord message got the success reaction only if the
\* platform call returned a message id or `true`, and a send whose call
\* threw or returned `false` got the failure reaction.
C24_ReactionMatchesResult ==
  \A i \in DOMAIN sendLog :
     /\ sendLog[i].reaction = "success" => sendLog[i].shape \in {"id", "true"}
     /\ (sendLog[i].origin \in {"discord", "media", "sticker"}
           /\ sendLog[i].shape \in {"null", "false"})
          => sendLog[i].reaction = "failure"

(***************************************************************************)
(* The send command: its dialogs, the reactions of the author, of another  *)
(* user and of the bot, and the platform calls of its sends.               *)
(***************************************************************************)
SendCommand == handleSendCommand(MaxSendCommands, MaxCommandSends)

SendDialogReaction == DialogReaction(MaxCommandSends)

NextSendCommand ==
  \/ SendCommand
  \/ SendDialogReaction
  \/ DialogTimeout
  \/ PlatformAccept
  \/ PlatformReturn
  \/ PlatformFail
  \/ UnlockTimerFire

SpecSendCommand == Init /\ [][NextSendCommand]_vars

\* C25: a send command that took the index branch has started a send only
\* if awaitReactions collected the confirm emoji from the author of the
\* command; a command that was cancelled or timed out has started none, and
\* every send of the send command belongs to a command.
C25_SendNeedsConfirmation ==
  /\ \A k \in DOMAIN sendCommands :
        LET command == sendCommands[k] IN
        command.route = "index" =>
           /\ command.sid # 0 => command.collected = <<command.author, "confirm">>
           /\ command.state \in {"cancelled", "timeout", "expired", "invalid_index"}
                 => command.sid = 0
  /\ \A i \in DOMAIN sendLog :
        sendLog[i].origin = "admin" =>
           \E k \in DOMAIN sendCommands : sendCommands[k].sid = i

\* After the bot and another user had reacted with the confirm emoji, the
\* author confirmed and the message was sent; another command got the
\* cancel reaction of its author.
C25_ConfirmedAndCancelled ==
  \E k1, k2 \in DOMAIN sendCommands :
     /\ sendCommands[k1].route = "index"
     /\ sendCommands[k1].state = "sent"
     /\ {"bot", "u2"} \subseteq sendCommands[k1].ignored
     /\ sendLog[sendCommands[k1].sid].shape = "id"
     /\ sendCommands[k2].state = "cancelled"

\* C26: a send command whose target is a phone number or a chat id does
\* not take the index branch and shows no dialog, and its message is sent
\* to the chat of that number or id.
C26_PhoneAndIdSentDirectly ==
  \A k \in DOMAIN sendCommands :
     LET command == sendCommands[k] IN
     command.identifier.kind \in {"phone", "chatId"} =>
        /\ command.route # "index"
        /\ ~command.dialog
        /\ command.state = "sent"
        /\ command.chat = command.identifier.target

\* The self-authored events of chat c that were suppressed as echoes.
SuppressedIn(c) ==
  {j \in DOMAIN processed :
     /\ processed[j].ev.chat = c
     /\ processed[j].ev.isMe
     /\ Suppressed(processed[j])}

\* C27: in every chat, the self-authored events suppressed as echoes are no
\* more than the sends the bridge made to the chat.
C27_SuppressedWithinSends ==
  \A c \in Chats :
     Cardinality(SuppressedIn(c)) <=
        Cardinality({s \in DOMAIN sendLog : sendLog[s].chat = c})

\* The unexpired content-hash records of a text in a chat.
ContentRecords(msgs, waChatId, content, t) ==
  {i \in DOMAIN msgs :
     /\ msgs[i].wa_chat_id = waChatId
     /\ msgs[i].message_hash = createMessageHash(content)
     /\ msgs[i].expires_at > t}

\* C28: a step that classifies one self-authored event as an echo by its
\* content hash leaves one content record of that text and chat fewer than
\* there were, so that k records answer k lookups; and after a step that
\* classifies an event as an echo by its id, a second lookup of that id
\* returns false.
C28_LookupRemovesOne ==
  [][Len(processed') = Len(processed) + 1 =>
       LET p == processed'[Len(processed')] IN
       /\ p.outcome = "echo_content" =>
            Cardinality(ContentRecords(discord_sent_messages', p.ev.chat,
                                       p.ev.body, now')) =
            Cardinality(ContentRecords(discord_sent_messages, p.ev.chat,
                                       p.ev.body, now)) - 1
       /\ p.outcome = "echo_id" =>
            ~wasMessageIdSentFromDiscord(pendingMessageIds',
                                         discord_sent_message_ids',
                                         p.ev.id, now')]_vars

(***************************************************************************)
(* A Discord message with a caption and one attachment, its send and echo, *)
(* and media with the same caption that the account owner sends on         *)
(* WhatsApp.                                                               *)
(***************************************************************************)
CaptionInbound == InboundMessage(MaxInbound, {"c1"}, {TRUE}, {"image"}, {TextHi})

CaptionMessages ==
  {m \in UserMessages : m.channel = 1 /\ m.content = TextHi /\ m.attachments = 1}

CaptionDiscord == MessageCreate(CaptionMessages, MaxMediaMsgs, MaxMediaSends)

NextCaption ==
  \/ CaptionInbound
  \/ InboundEcho
  \/ CaptionDiscord
  \/ MediaAttachmentSent
  \/ AttachmentSkip
  \/ PlatformAccept
  \/ PlatformReturn
  \/ PlatformFail
  \/ UnlockTimerFire
  \/ DrainTimerFire
  \/ MediaTimerFire
  \/ Tick
  \/ PeriodicCleanup

SpecCaption == Init /\ [][NextCaption]_vars

\* C29: a step that classifies one self-authored event consumes a record of
\* a kind only when no more reliable kind matched: a unit of the
\* pending-media counter only when neither the id nor the content hash of
\* the event matched, a content-hash record only when the id did not match,
\* and after a match by id the other kinds stay as they were.
C29_ReliabilityOrder ==
  [][Len(processed') = Len(processed) + 1 =>
       LET p == processed'[Len(processed')] IN
       /\ p.outcome = "echo_counter" =>
            /\ ~wasMessageIdSentFromDiscord(pendingMessageIds,
                                            discord_sent_message_ids, p.ev.id, now)
            /\ ~wasMessageSentFromDiscord(discord_sent_messages, p.ev.chat,
                                          p.ev.body, now)
       /\ p.outcome = "echo_content" =>
            ~wasMessageIdSentFromDiscord(pendingMessageIds,
                                         discord_sent_message_ids, p.ev.id, now)
       /\ p.outcome = "echo_id" =>
            UNCHANGED <<discord_sent_messages, pendingMediaCounts,
                        pending_media_counts>>]_vars

(***************************************************************************)
(* A GIF URL posted in a chat channel: its download, the send with         *)
(* sendVideoAsGif or sendVideo, and the echoes.                            *)
(***************************************************************************)
GifMessages ==
  {m \in UserMessages : m.channel = 1 /\ m.content = GifUrlText /\ m.attachments = 0}

GifDiscord == MessageCreate(GifMessages, MaxGifMsgs, MaxGifSends)

GifSend == GifDownloaded(MaxGifSends)

GifVideoSend == GifFallback(MaxGifSends)

NextGif ==
  \/ GifDiscord
  \/ GifSend
  \/ GifVideoSend
  \/ PlatformAccept
  \/ PlatformReturn
  \/ PlatformFail
  \/ UnlockTimerFire
  \/ DrainTimerFire
  \/ InboundEcho

SpecGif == Init /\ [][NextGif]_vars

\* The sends whose platform call begins, and the sends whose platform call
\* ends, in a step.
CallsBeginning == {c \in calls' : \A k \in calls : k.sid # c.sid}

CallsOver == {c \in calls : \A k \in calls' : k.sid # c.sid}

\* C30: the chat of every send is locked when its platform call begins,
\* and when the call is over the timer is set that registers the
\* fingerprint of the result and unlocks the chat.
C30_EverySendWrapped ==
  [][/\ \A c \in CallsBeginning : isChatLockedForSending(sendingLocks', c.chat)
     /\ \A c \in CallsOver :
          \E i \in DOMAIN unlockTimers' :
             unlockTimers'[i].sid = c.sid /\ unlockTimers'[i].chat = c.chat]_vars

\* The sends of a text to a chat that did not fail: under way, or resolved
\* with an id or with `true`.
SendsNotFailed(waChatId, messageHash) ==
  {s \in DOMAIN sendLog :
     /\ sendLog[s].chat = waChatId
     /\ createMessageHash(sendLog[s].body) = messageHash
     /\ sendLog[s].shape \notin {"null", "false"}}

\* C31: every unexpired content-hash record of the ledger belongs to a send
\* that did not fail, and every id record to a send that created a message:
\* a failed send leaves no fingerprint.
C31_NoFingerprintOfFailedSend ==
  /\ \A i \in DOMAIN discord_sent_messages :
        discord_sent_messages[i].expires_at > now =>
           SendsNotFailed(discord_sent_messages[i].wa_chat_id,
                          discord_sent_messages[i].message_hash) # {}
  /\ \A r \in discord_sent_message_ids :
        \E s \in DOMAIN sendLog :
           sendLog[s].msgId = r.wa_message_id /\ sendLog[s].shape = "id"

(***************************************************************************)
(* The pending-media counter over its TTL: Discord messages with one       *)
(* attachment and no caption, ten minutes apart or not, and media the      *)
(* account owner sends on WhatsApp.                                        *)
(***************************************************************************)
TtlInbound == InboundMessage(MaxInbound, {"c1"}, {TRUE}, {"image"}, {NoText})

TtlMessages ==
  {m \in UserMessages : m.channel = 1 /\ m.content = NoText /\ m.attachments = 1}

TtlDiscord == MessageCreate(TtlMessages, MaxTtlMsgs, MaxMediaSends)

NextTtl ==
  \/ TtlInbound
  \/ InboundEcho
  \/ TtlDiscord
  \/ MediaAttachmentSent
  \/ AttachmentSkip
  \/ PlatformAccept
  \/ PlatformReturn
  \/ PlatformFail
  \/ UnlockTimerFire
  \/ DrainTimerFire
  \/ MediaTimerFire
  \/ Tick
  \/ PeriodicCleanup

SpecTtl == Init /\ [][NextTtl]_vars

\* C32: an increment for a chat whose table row is past its expiry and not
\* yet swept leaves a row that holds the units of this increment only, so
\* that the expired units suppress nothing.
C32_ExpiredUnitsNeverRevived ==
  [][Len(incLog') = Len(incLog) + 1 =>
       LET inc == incLog'[Len(incLog')] IN
       (/\ inc.chat \in DOMAIN pending_media_counts
        /\ pending_media_counts[inc.chat].expires_at <= now)
         => pending_media_counts'[inc.chat].count = inc.count]_vars

(***************************************************************************)
(* Delivery of the messages of a third party while users write in the      *)
(* channel of the chat: the sends lock the chat, the messages wait in the  *)
(* queue and in the drain timer, and their forwards fetch the channel and  *)
(* post.  Platform calls end, timers fire and Discord answers.             *)
(***************************************************************************)
\* MaxDeliverOps bounds the messages of the third party and the messages
\* of the Discord users together.
DeliverInbound ==
  InboundMessage(MaxDeliverOps - nDiscord, {"c1"}, {FALSE}, {"chat"}, {TextHi})

DeliverDiscord ==
  MessageCreate(TextMessages, MaxDeliverOps - Len(arrivals),
                MaxDeliverOps - Len(arrivals))

NextDeliver ==
  \/ DeliverInbound
  \/ DeliverDiscord
  \/ PlatformAccept
  \/ PlatformReturn
  \/ PlatformFail
  \/ UnlockTimerFire
  \/ DrainTimerFire
  \/ ChannelFetched
  \/ ForwardPost

\* What the runtime does by itself: a pending platform call ends, a timer
\* that was set fires, Discord answers a fetch or a post.  Every such step
\* uses up a call, a timer or a stage of a forward, so none can be put off
\* forever by the others.
DeliverStep ==
  \/ PlatformStep
  \/ UnlockTimerFire
  \/ DrainTimerFire
  \/ ChannelFetched
  \/ ForwardPost

SpecDeliver == Init /\ [][NextDeliver]_vars /\ WF_vars(DeliverStep)

\* The entries of the log for an event.
ProcessedAs(m) == {j \in DOMAIN processed : processed[j].ev.id = m.id}

\* The event was passed to forwardMessageToDiscord once and the post of its
\* forward has been made.
Delivered(m) ==
  /\ Cardinality(ProcessedAs(m)) = 1
  /\ \A j \in ProcessedAs(m) : processed[j].outcome = "forwarded"
  /\ \A i \in DOMAIN forwards : forwards[i].ev # m.id

Overlapping(k1, k2) ==
  /\ k1 # k2
  /\ channelCalls[k1].chat = channelCalls[k2].chat
  /\ channelCalls[k1].existing = 0 /\ channelCalls[k2].existing = 0
  /\ channelCalls[k1].done /\ channelCalls[k2].done
  /\ k1 \notin channelCalls[k2].after /\ k2 \notin channelCalls[k1].after
  /\ channelCalls[k1].purges = channelCalls[k2].purges
  /\ channelCalls[k1].endPurges = channelCalls[k1].purges
  /\ channelCalls[k2].endPurges = channelCalls[k2].purges

\* C34: of two overlapping getOrCreateChannel calls for a chat without a
\* mapping, one creates a channel and both return that channel.
C34_OverlappingCallsCreateOne ==
  \A k1, k2 \in DOMAIN channelCalls :
     Overlapping(k1, k2) =>
        /\ channelCalls[k1].created # channelCalls[k2].created
        /\ channelCalls[k1].result # 0
        /\ channelCalls[k1].result = channelCalls[k2].result

\* this.database.logMessage(chatId, channelId, body, senderName, type, true)
\* of handleMessage and handleOwnMessage: the row of an event is written
\* when the forwardMessageToDiscord call the handler awaits has returned;
\* the call catches whatever its body throws.
message_logs ==
  {processed[j].ev.id :
     j \in {j \in DOMAIN processed :
              /\ processed[j].outcome = "forwarded"
              /\ processed[j].ev.type # "reaction"
              /\ \A i \in DOMAIN forwards : forwards[i].ev # processed[j].ev.id}}

\* C35: the event of a getOrCreateChannel call that has thrown has no row
\* with forwarded = true in the message log.
C35_NoLogRowForFailedForward ==
  \A k \in DOMAIN channelCalls :
     (channelCalls[k].done /\ channelCalls[k].result = 0)
        => channelCalls[k].ev \notin message_logs

(***************************************************************************)
(* Messages that quote a text or an image, and their temp files.           *)
(***************************************************************************)
MaxQuoteInbound == 2

QuoteInbound ==
  InboundQuote(MaxQuoteInbound, {"c1"}, {FALSE}, EventTypes, {TextHi}, QuotedTypes)

NextQuote ==
  \/ QuoteInbound
  \/ ChannelFetched
  \/ QuotedMediaProcessed
  \/ ForwardPost
  \/ MediaProcessed
  \/ MediaPosted

SpecQuote == Init /\ [][NextQuote]_vars

\* C36: a file in the temp directory belongs to an event whose forward is
\* still going on; when the forward of an event has ended, no file of the
\* event is left.
C36_NoTempFileAfterProcessing ==
  \A t \in tempFiles : \E i \in DOMAIN forwards : forwards[i].ev = t.ev

(***************************************************************************)
(* Echoes that arrive while the store throws in lookups of the ledger: a   *)
(* text and a file sent from the chat channel, one posted when the echo of *)
(* the other has arrived, and their echoes.                                *)
(***************************************************************************)
MaxStoreMsgs == 2
MaxStoreSends == 2

StoreMessages == TextMessages \cup TtlMessages

StoreDiscord ==
  MessageCreate(IF calls = {} /\ wire = {} THEN StoreMessages ELSE {},
                MaxStoreMsgs, MaxStoreSends)

StoreAttachmentSent == AttachmentSend(MaxStoreSends, {"image"})

NextStore ==
  \/ StoreDiscord
  \/ StoreAttachmentSent
  \/ AttachmentSkip
  \/ InboundEcho
  \/ InboundEchoStoreThrows
  \/ PlatformAccept
  \/ PlatformReturn
  \/ PlatformFail
  \/ UnlockTimerFire
  \/ DrainTimerFire

SpecStore == Init /\ [][NextStore]_vars

\* The lookup that gives an outcome of handleOwnMessage.
LookupOf(outcome) ==
  CASE outcome = "echo_id" -> "id"
    [] outcome = "echo_counter" -> "counter"
    [] outcome = "echo_content" -> "content"
    [] OTHER -> "none"

\* C37: a lookup of the ledger in which the store threw has answered "not
\* an echo": no self-authored event is dropped by a lookup that threw, so
\* an event is forwarded unless a lookup that did not throw found it; and
\* when the store threw in every lookup that reached it and no memory cache
\* held the event, the event is forwarded.
C37_FailedLookupNeverSuppresses ==
  \A j \in DOMAIN processed :
     /\ LookupOf(processed[j].outcome) \notin processed[j].threw
     /\ processed[j].threw \in {{"id", "content"}, StoreLookups}
          => processed[j].outcome = "forwarded"

\* The echo of a send whose id and content were recorded was forwarded
\* because the store threw in both lookups.
C37_EchoForwardedOnStoreError ==
  \E j \in DOMAIN processed :
     /\ processed[j].threw = {"id", "content"}
     /\ processed[j].outcome = "forwarded"
     /\ \E r \in discord_sent_message_ids : r.wa_message_id = processed[j].ev.id
     /\ wasMessageSentFromDiscord(discord_sent_messages, processed[j].ev.chat,
                                  processed[j].ev.body, now)

(***************************************************************************)
(* Channels deleted on Discord and replaced by the next forward of the     *)
(* chat, with the mute commands.                                           *)
(***************************************************************************)
MaxRebindInbound == 2

RebindInbound ==
  InboundMessage(MaxRebindInbound, {"c1"}, {FALSE}, {"chat"}, {TextHi})

NextRebind ==
  \/ RebindInbound
  \/ ChannelFetched
  \/ ChannelCreated
  \/ ForwardPost
  \/ ChannelRemoved
  \/ handleMuteCommand
  \/ handleUnmuteCommand

SpecRebind == Init /\ [][NextRebind]_vars

\* C38: when a getOrCreateChannel call that read a mapping whose channel is
\* gone ends, it has created one channel, the chat has its one mapping,
\* bound to that channel, with the muted flag it had; no mapping is bound
\* to the channel the call had read, and the mappings of the other chats
\* are as they were.
C38_ReplacementRebindsInPlace ==
  [][\A k \in CallsEnding :
        (channelCalls[k].existing # 0 /\ channelCalls'[k].created) =>
           LET c == channelCalls[k].chat IN
           /\ Cardinality(channels' \ channels) = 1
           /\ channelCalls'[k].result \in channels' \ channels
           /\ DOMAIN chat_mappings' = DOMAIN chat_mappings
           /\ c \in DOMAIN chat_mappings'
           /\ chat_mappings'[c].dc_channel_id = channelCalls'[k].result
           /\ chat_mappings'[c].is_muted = chat_mappings[c].is_muted
           /\ \A d \in DOMAIN chat_mappings' :
                /\ chat_mappings'[d].dc_channel_id # channelCalls[k].existing
                /\ d # c => chat_mappings'[d] = chat_mappings[d]]_vars

\* A muted chat whose channel was deleted got a replacement channel and is
\* still muted.
C38_MutedChatRebound ==
  \E k \in DOMAIN channelCalls :
     /\ channelCalls[k].done /\ channelCalls[k].created
     /\ channelCalls[k].existing # 0
     /\ channelCalls[k].existing \notin channels
     /\ chat_mappings[channelCalls[k].chat].dc_channel_id = channelCalls[k].result
     /\ chat_mappings[channelCalls[k].chat].is_muted

\* C39: an echo of a send that returned a message id, deferred while the
\* chat was locked, finds the id in the ledger when it is handled.
C39_DeferredEchoFindsId ==
  \A j \in DOMAIN processed :
     (/\ processed[j].ev.id \in deferred
      /\ \E s \in DOMAIN sendLog : /\ sendLog[s].msgId = processed[j].ev.id
                                   /\ sendLog[s].shape = "id")
        => processed[j].outcome = "echo_id"

(***************************************************************************)
(* The purge command and the pause command: messages of a third party,    *)
(* and files sent from the chat channel.                                   *)
(***************************************************************************)
MaxResetOps == 2

ResetInbound ==
  InboundMessage(MaxResetOps - nDiscord, {"c1"}, {FALSE}, {"chat"}, {TextHi})

ResetDiscord ==
  MessageCreate(TtlMessages, MaxResetOps - Len(arrivals),
                MaxResetOps - Len(arrivals))

ResetAttachmentSent == AttachmentSend(MaxResetOps - Len(arrivals), {"image"})

NextReset ==
  \/ ResetInbound
  \/ ResetDiscord
  \/ ResetAttachmentSent
  \/ AttachmentSkip
  \/ PlatformAccept
  \/ PlatformReturn
  \/ PlatformFail
  \/ UnlockTimerFire
  \/ DrainTimerFire
  \/ handlePauseCommand
  \/ Purge

SpecReset == Init /\ [][NextReset]_vars

\* C40: when purgeAllData has run the bridge is not paused, whatever it was
\* before, no message id and no pending-media unit is cached in memory, and
\* no chat has a send lock.
C40_PurgeResetsPauseAndCaches ==
  [][nPurges' # nPurges =>
       /\ ~is_paused'
       /\ pendingMessageIds' = {}
       /\ \A c \in Chats : pendingMediaCounts'[c] = 0
       /\ sendingLocks' = EmptyMap]_vars

\* A message was dropped because the bridge was paused, the bridge was
\* purged, and a later message was forwarded; nothing but the purge ends
\* the pause here.
C40_ForwardingResumedByPurge ==
  /\ nPurges = 1
  /\ \E i, j \in DOMAIN processed :
       /\ i < j
       /\ processed[i].outcome = "paused"
       /\ processed[j].outcome = "forwarded"

=========================================================================
